---- MODULE Spec2Model ----
(***************************************************************************)
(* Order & payment lifecycle of the ShopEase backend: the Express route    *)
(* handlers for orders and payments together with the Mongoose models      *)
(* they drive.  Every request is a handler running in a slot; a handler    *)
(* advances one database round trip (one `await`) per step, so handlers    *)
(* of different requests interleave exactly where the code awaits.         *)
(*                                                                         *)
(* A Mongoose document is a snapshot read by find*(); save() writes back   *)
(* only the paths assigned a different value ($set), after running the     *)
(* schema validators of those paths.                                       *)
(*                                                                         *)
(* Dates written by `new Date()` are represented by the sequence number of *)
(* the request that wrote them (0 = unset).                                *)
(***************************************************************************)
EXTENDS Integers, Sequences, FiniteSets, TLC

\* ---- bounds -------------------------------------------------------------
MaxStock == 2
\* requests per behaviour: handlers interleaving / served one after the other
MaxOps == 2
MaxSeqOps == 3
MaxPayOps == 4
MaxPaySeqOps == 4
MaxRefundOps == 6
MaxPriceOps == 2
MaxSnapOps == 4
MaxCartOps == 3
MaxLedgerOps == 3
MaxLiveOps == 4
MaxUntrackedOps == 3
MaxCancelOps == 3
MaxAmountOps == 4
MaxCartSeqOps == 3
\* handlers in flight at the same time
MaxReq == 2

\* ---- program constants --------------------------------------------------
TaxPermille == 75
FreeShippingThreshold == 50000
FlatShipping == 2500
PriceA == 10000
PriceB == 45000

Users == {"u1", "u2"}
Products == {"pA", "pB"}
Reqs == 1..MaxReq
OrderIds == 1..(MaxOps + MaxSeqOps + MaxPayOps + MaxPaySeqOps + MaxRefundOps + MaxPriceOps + MaxSnapOps + MaxCartOps + MaxLedgerOps + MaxLiveOps + MaxUntrackedOps + MaxCancelOps + MaxAmountOps)
None == 0

\* jsonMounted: the application parses JSON bodies (express.json) ahead of the
\* routers, so that express.raw on a route finds the body already read
VARIABLES products, orders, payments, carts, req, started, last, jsonMounted

vars == <<products, orders, payments, carts, req, started, last, jsonMounted>>

\* ---- helpers ------------------------------------------------------------
Line(p, q) == [product |-> p, quantity |-> q]

ItemLists ==
  { <<Line("pA", 1)>>, <<Line("pA", 2)>>, <<Line("pA", 1), Line("pA", 1)>>,
    <<Line("pA", 1), Line("pB", 1)>>, <<Line("pX", 1)>> }

Idle == [op |-> "idle", pc |-> "idle"]

\* `last` is the response sent most recently: the operation, the order or
\* payment it was about (0 = none), the HTTP status and the outcome.
NoResponse == [op |-> "none", key |-> 0, code |-> 0, kind |-> "none"]

AllIdle == \A r \in Reqs : req[r].pc = "idle"

\* A request is taken by the lowest free slot (slots are interchangeable)
\* and runs up to its first database round trip.  c.max is the number of
\* requests of a behaviour; c.seq admits a request only when no other
\* handler is in flight (requests served one after the other).
CanStart(r, c) ==
  /\ req[r].pc = "idle"
  /\ \A k \in Reqs : k < r => req[k].pc # "idle"
  /\ started < c.max
  /\ c.seq => AllIdle

\* total quantity the lines of `items` ask of product p
RECURSIVE Ordered(_, _)
Ordered(items, p) ==
  IF items = <<>> THEN 0
  ELSE (IF Head(items).product = p THEN Head(items).quantity ELSE 0)
       + Ordered(Tail(items), p)

\* sum of quantity * unit price over the lines of an order
RECURSIVE LineSum(_)
LineSum(items) ==
  IF items = <<>> THEN 0
  ELSE Head(items).quantity * Head(items).price + LineSum(Tail(items))

\* ---- Product model ------------------------------------------------------
ValidQuantityNoMin(q) == TRUE

\* inventory.quantity: { type: Number, min: [0, 'Quantity cannot be negative'] }
ValidQuantity(q) == q >= 0

TrackInventoryAlways(product) == TRUE

\* inventory.trackInventory
TrackInventory(product) == product.track

\* ---- pricing (createOrder) ----------------------------------------------
\* subtotal * 0.075, exact on the catalog's prices (multiples of 40)
Tax(subtotal) == (subtotal * TaxPermille) \div 1000

ShippingFreeAtThreshold(subtotal) ==
  IF subtotal >= FreeShippingThreshold THEN 0 ELSE FlatShipping

Shipping(subtotal) == IF subtotal > FreeShippingThreshold THEN 0 ELSE FlatShipping

TotalNoShipping(subtotal) == subtotal + Tax(subtotal)

Total(subtotal) == subtotal + Tax(subtotal) + Shipping(subtotal)

\* ---- initial state ------------------------------------------------------
Init ==
  /\ \E q \in 1..MaxStock, sB \in {"active", "inactive"} :
       products =
         [p \in Products |->
            IF p = "pA"
            THEN [status |-> "active", price |-> PriceA, track |-> TRUE, quantity |-> q]
            ELSE [status |-> sB, price |-> PriceB, track |-> FALSE, quantity |-> 0]]
  /\ orders = <<>>
  /\ payments = <<>>
  /\ carts = [u \in Users |-> <<>>]
  /\ req = [r \in Reqs |-> Idle]
  /\ started = 0
  /\ last = NoResponse
  /\ jsonMounted \in BOOLEAN

\* The handler in slot r sends its response and the slot becomes free.
Respond(r, resp) ==
  /\ req' = [req EXCEPT ![r] = Idle]
  /\ last' = resp

\* ======================= POST /api/orders ================================
\* stock0 and carts0 remember the quantities and the carts the request
\* found on entry; a 400 names the line it refused
CoResp(me, code, kind) ==
  [op |-> "createOrder", key |-> me.order, code |-> code, kind |-> kind,
   stock0 |-> me.stock0, mail |-> "none",
   user |-> me.user, carts0 |-> me.carts0,
   line |-> IF code = 400 THEN me.items[me.i] ELSE Line("", 0)]

NewCreateOrder(u, items, n) ==
  [op |-> "createOrder", pc |-> "co_validate", n |-> n,
   user |-> u, items |-> items, i |-> 1, orderItems |-> <<>>,
   subtotal |-> 0, order |-> None, qtyRead |-> 0,
   stock0 |-> [p \in Products |-> products[p].quantity],
   carts0 |-> carts]

\* lines 48-83: Product.findById for item i, then the three checks
ValidateItem(r, me) ==
  LET item == me.items[me.i]
      pid == item.product
  IN IF pid \notin Products
     THEN Respond(r, CoResp(me, 400, "not_found"))
     ELSE LET product == products[pid]
              itemTotal == product.price * item.quantity
          IN IF product.status # "active"
             THEN Respond(r, CoResp(me, 400, "unavailable"))
             ELSE IF TrackInventory(product) /\ product.quantity < item.quantity
             THEN Respond(r, CoResp(me, 400, "insufficient"))
             ELSE /\ req' = [req EXCEPT ![r] =
                       [me EXCEPT !.i = @ + 1,
                                  !.subtotal = @ + itemTotal,
                                  !.orderItems = Append(@,
                                     [product |-> pid, price |-> product.price,
                                      quantity |-> item.quantity,
                                      itemTotal |-> itemTotal]),
                                  !.pc = IF me.i = Len(me.items)
                                         THEN "co_save" ELSE "co_validate"]]
                  /\ UNCHANGED last

CreateOrderStart(r, u, items, c) ==
  /\ CanStart(r, c)
  /\ started' = started + 1
  /\ ValidateItem(r, NewCreateOrder(u, items, started + 1))
  /\ UNCHANGED <<products, orders, payments, carts, jsonMounted>>

CreateOrderValidate(r) ==
  /\ req[r].op = "createOrder" /\ req[r].pc = "co_validate"
  /\ ValidateItem(r, req[r])
  /\ UNCHANGED <<products, orders, payments, carts, started, jsonMounted>>

\* lines 85-108: pricing and new Order({ ..., status: 'pending' })
NewOrder(u, orderItems, subtotal) ==
  [user |-> u, items |-> orderItems,
   pricing |-> [subtotal |-> subtotal, tax |-> Tax(subtotal),
                shipping |-> Shipping(subtotal), total |-> Total(subtotal)],
   status |-> "pending", cancellationReason |-> "",
   cancelledAt |-> 0, shippedAt |-> 0, deliveredAt |-> 0]

\* line 110: order.save()
CreateOrderSave(r) ==
  /\ req[r].op = "createOrder" /\ req[r].pc = "co_save"
  /\ orders' = Append(orders, NewOrder(req[r].user, req[r].orderItems, req[r].subtotal))
  /\ req' = [req EXCEPT ![r].order = Len(orders) + 1, ![r].i = 1,
                        ![r].pc = "co_dec_read"]
  /\ UNCHANGED <<products, payments, carts, started, last, jsonMounted>>

\* lines 114-115: Product.findById(item.productId) in the inventory loop
CreateOrderDecRead(r) ==
  /\ req[r].op = "createOrder" /\ req[r].pc = "co_dec_read"
  /\ LET product == products[req[r].items[req[r].i].product]
     IN req' = [req EXCEPT
          ![r].qtyRead = product.quantity,
          ![r].i = IF TrackInventory(product) THEN @ ELSE @ + 1,
          ![r].pc = IF TrackInventory(product) THEN "co_dec_write"
                    ELSE IF req[r].i = Len(req[r].items) THEN "co_cart"
                    ELSE "co_dec_read"]
  /\ UNCHANGED <<products, orders, payments, carts, started, last, jsonMounted>>

\* lines 116-117: product.inventory.quantity -= item.quantity; product.save()
CreateOrderDecWrite(r) ==
  /\ req[r].op = "createOrder" /\ req[r].pc = "co_dec_write"
  /\ LET item == req[r].items[req[r].i]
         q == req[r].qtyRead - item.quantity
     IN IF ~ValidQuantity(q)
        THEN /\ Respond(r, CoResp(req[r], 500, "server_error"))
             /\ UNCHANGED products
        ELSE /\ products' = [products EXCEPT ![item.product].quantity = q]
             /\ req' = [req EXCEPT ![r].i = @ + 1,
                          ![r].pc = IF req[r].i = Len(req[r].items)
                                    THEN "co_cart" ELSE "co_dec_read"]
             /\ UNCHANGED last
  /\ UNCHANGED <<orders, payments, carts, started, jsonMounted>>

CreateOrderCartEveryUser(r) ==
  /\ req[r].op = "createOrder" /\ req[r].pc = "co_cart"
  /\ carts' = [u \in Users |-> <<>>]
  /\ req' = [req EXCEPT ![r].pc = "co_notify"]
  /\ UNCHANGED <<products, orders, payments, started, last, jsonMounted>>

\* lines 121-127: user.cart.items = []; user.save(); order.populate
CreateOrderCart(r) ==
  /\ req[r].op = "createOrder" /\ req[r].pc = "co_cart"
  /\ carts' = [carts EXCEPT ![req[r].user] = <<>>]
  /\ req' = [req EXCEPT ![r].pc = "co_notify"]
  /\ UNCHANGED <<products, orders, payments, started, last, jsonMounted>>

\* sendOrderNotification resolves, or rejects with the transport's error
NotifyOutcomes == {"sent", "throws"}

AfterNotifySurfaced(outcome) == IF outcome = "throws" THEN 500 ELSE 201

\* lines 129-141: the try/catch around the notification, then status 201
AfterNotify(outcome) == 201

\* lines 129-141: await sendOrderNotification(order, user); respond
CreateOrderNotify(r, outcome) ==
  /\ req[r].op = "createOrder" /\ req[r].pc = "co_notify"
  /\ LET code == AfterNotify(outcome)
     IN Respond(r, [CoResp(req[r], code,
                           IF code = 201 THEN "created" ELSE "server_error")
                      EXCEPT !.mail = outcome])
  /\ UNCHANGED <<products, orders, payments, carts, started, jsonMounted>>

CreateOrderFinish(r) == \E outcome \in NotifyOutcomes : CreateOrderNotify(r, outcome)

\* ======================= PUT /api/orders/:id/cancel ======================
CaResp(me, code, kind) ==
  [op |-> "cancelOrder", key |-> me.order, code |-> code, kind |-> kind]

CancellableWithShipped == {"pending", "processing", "shipped"}

\* line 294: !['pending', 'processing'].includes(order.status)
Cancellable == {"pending", "processing"}

\* lines 276-299: Order.findById, ownership and status checks
CancelStart(r, u, o, c) ==
  /\ CanStart(r, c)
  /\ started' = started + 1
  /\ LET me == [op |-> "cancelOrder", pc |-> "ca_res_read", n |-> started + 1,
                user |-> u, order |-> o, items |-> <<>>, i |-> 1, qtyRead |-> 0,
                stock0 |-> [p \in Products |-> products[p].quantity]]
     IN IF o > Len(orders)
        THEN Respond(r, CaResp(me, 404, "not_found"))
        ELSE IF orders[o].user # u
        THEN Respond(r, CaResp(me, 403, "forbidden"))
        ELSE IF orders[o].status \notin Cancellable
        THEN Respond(r, CaResp(me, 400, "invalid_state"))
        ELSE /\ req' = [req EXCEPT ![r] = [me EXCEPT !.items = orders[o].items]]
             /\ UNCHANGED last
  /\ UNCHANGED <<products, orders, payments, carts, jsonMounted>>

\* lines 303-304: Product.findById(item.product) in the restore loop
CancelRestoreRead(r) ==
  /\ req[r].op = "cancelOrder" /\ req[r].pc = "ca_res_read"
  /\ LET product == products[req[r].items[req[r].i].product]
     IN req' = [req EXCEPT
          ![r].qtyRead = product.quantity,
          ![r].i = IF TrackInventory(product) THEN @ ELSE @ + 1,
          ![r].pc = IF TrackInventory(product) THEN "ca_res_write"
                    ELSE IF req[r].i = Len(req[r].items) THEN "ca_save"
                    ELSE "ca_res_read"]
  /\ UNCHANGED <<products, orders, payments, carts, started, last, jsonMounted>>

RestoredOne(q, item) == q + 1

\* line 305: product.inventory.quantity += item.quantity
Restored(q, item) == q + item.quantity

\* lines 305-306: product.inventory.quantity += item.quantity; product.save()
CancelRestoreWrite(r) ==
  /\ req[r].op = "cancelOrder" /\ req[r].pc = "ca_res_write"
  /\ LET item == req[r].items[req[r].i]
     IN products' = [products EXCEPT
                       ![item.product].quantity = Restored(req[r].qtyRead, item)]
  /\ req' = [req EXCEPT ![r].i = @ + 1,
               ![r].pc = IF req[r].i = Len(req[r].items)
                         THEN "ca_save" ELSE "ca_res_read"]
  /\ UNCHANGED <<orders, payments, carts, started, last, jsonMounted>>

\* lines 310-319: status, reason, cancelledAt; order.save(); respond
CancelSave(r) ==
  /\ req[r].op = "cancelOrder" /\ req[r].pc = "ca_save"
  /\ orders' = [orders EXCEPT ![req[r].order] =
       [@ EXCEPT !.status = "cancelled",
                 !.cancellationReason = "Cancelled by user",
                 !.cancelledAt = req[r].n]]
  /\ Respond(r, CaResp(req[r], 200, "ok"))
  /\ UNCHANGED <<products, payments, carts, started, jsonMounted>>

\* ======================= PUT /api/orders/:id/status ======================
OrderStatuses == {"pending", "processing", "shipped", "delivered", "cancelled"}

TsResp(me, code, kind) ==
  [op |-> "transitionStatus", key |-> me.order, code |-> code, kind |-> kind]

\* lines 352-359: Order.findById
TransitionStart(r, o, s, c) ==
  /\ CanStart(r, c)
  /\ started' = started + 1
  /\ LET me == [op |-> "transitionStatus", pc |-> "ts_save", n |-> started + 1,
                order |-> o, status |-> s, doc |-> None]
     IN IF o > Len(orders)
        THEN Respond(r, TsResp(me, 404, "not_found"))
        ELSE /\ req' = [req EXCEPT ![r] = [me EXCEPT !.doc = orders[o]]]
             /\ UNCHANGED last
  /\ UNCHANGED <<products, orders, payments, carts, jsonMounted>>

OrderSaveOverwriting(cur, doc, s, n) ==
  [cur EXCEPT
     !.status = IF s # doc.status THEN s ELSE @,
     !.shippedAt = IF s = "shipped" THEN n ELSE @,
     !.deliveredAt = IF s = "delivered" THEN n ELSE @,
     !.cancelledAt = IF s = "cancelled" /\ s # doc.status /\ doc.cancelledAt = 0
                     THEN n ELSE @]

\* order.save() of a document loaded as `doc` whose status was assigned s:
\* the status is written when it differs from the loaded one, and the
\* timestamps follow lines 372-376 and the Order pre('save') hook.
OrderSave(cur, doc, s, n) ==
  [cur EXCEPT
     !.status = IF s # doc.status THEN s ELSE @,
     !.shippedAt = IF s = "shipped" /\ doc.shippedAt = 0 THEN n ELSE @,
     !.deliveredAt = IF s = "delivered" /\ doc.deliveredAt = 0 THEN n ELSE @,
     !.cancelledAt = IF s = "cancelled" /\ s # doc.status /\ doc.cancelledAt = 0
                     THEN n ELSE @]

\* lines 361-384: order.status = status; timestamps; order.save(); respond
TransitionSave(r) ==
  /\ req[r].op = "transitionStatus" /\ req[r].pc = "ts_save"
  /\ orders' = [orders EXCEPT ![req[r].order] =
                  OrderSave(@, req[r].doc, req[r].status, req[r].n)]
  /\ Respond(r, TsResp(req[r], 200, "ok"))
  /\ UNCHANGED <<products, payments, carts, started, jsonMounted>>

\* ======================= Payment model ===================================
Methods == {"flutterwave", "paystack", "card", "bank_transfer"}

\* gateway: enum ['flutterwave', 'paystack', 'paypal', 'stripe', 'manual']
GatewayEnum == {"flutterwave", "paystack", "paypal", "stripe", "manual"}

\* statuses the duplicate check of initiatePayment looks for
BlockingStatuses == {"pending", "processing", "completed"}

MarkCompletedNoId(cur, doc, txid, n) ==
  [cur EXCEPT !.status = IF doc.status # "completed" THEN "completed" ELSE @,
              !.completedAt = n]

\* markCompleted(gatewayTransactionId) then save() on a document loaded as
\* `doc`, by request n: status is written when it differs from the loaded
\* one, completedAt and the transaction id always.
MarkCompleted(cur, doc, txid, n) ==
  [cur EXCEPT !.status = IF doc.status # "completed" THEN "completed" ELSE @,
              !.completedAt = n,
              !.gatewayTransactionId = IF txid # "" THEN txid ELSE @]

\* markFailed(null, message) then save()
MarkFailed(cur, doc, message, n) ==
  [cur EXCEPT !.status = IF doc.status # "failed" THEN "failed" ELSE @,
              !.failedAt = n,
              !.error = message]

\* ======================= POST /api/payments/initiate =====================
IpResp(me, code, kind) ==
  [op |-> "initiatePayment", key |-> me.order, code |-> code, kind |-> kind]

PayableWithProcessing == {"pending", "processing"}

\* line 460: order.status !== 'pending'
Payable == {"pending"}

\* a Payment whose gatewayReference was never assigned
NoReference == <<>>

\* lines 442-465: Order.findById, ownership, status === 'pending'
InitiateStart(r, u, o, m, c) ==
  /\ CanStart(r, c)
  /\ started' = started + 1
  /\ LET me == [op |-> "initiatePayment", pc |-> "ip_check", n |-> started + 1,
                user |-> u, order |-> o, method |-> m, total |-> 0,
                payment |-> None, ref |-> NoReference]
     IN IF o > Len(orders)
        THEN Respond(r, IpResp(me, 404, "not_found"))
        ELSE IF orders[o].user # u
        THEN Respond(r, IpResp(me, 403, "forbidden"))
        ELSE IF orders[o].status \notin Payable
        THEN Respond(r, IpResp(me, 400, "invalid_state"))
        ELSE /\ req' = [req EXCEPT ![r] =
                          [me EXCEPT !.total = orders[o].pricing.total]]
             /\ UNCHANGED last
  /\ UNCHANGED <<products, orders, payments, carts, jsonMounted>>

\* line 468: Payment.findOne({ order, status: { $in: [...] } })
ExistingPayment(o) ==
  \E p \in DOMAIN payments :
     payments[p].order = o /\ payments[p].status \in BlockingStatuses

\* lines 468-474
InitiateCheck(r) ==
  /\ req[r].op = "initiatePayment" /\ req[r].pc = "ip_check"
  /\ IF ExistingPayment(req[r].order)
     THEN Respond(r, IpResp(req[r], 400, "duplicate"))
     ELSE /\ req' = [req EXCEPT ![r].pc = "ip_create"]
          /\ UNCHANGED last
  /\ UNCHANGED <<products, orders, payments, carts, started, jsonMounted>>

\* lines 477-485: new Payment({...})
NewPayment(o, u, amount, m) ==
  [order |-> o, user |-> u, amount |-> amount, method |-> m,
   gateway |-> IF m = "card" THEN "flutterwave" ELSE m,
   gatewayReference |-> NoReference, gatewayTransactionId |-> "",
   status |-> "pending", error |-> "", completedAt |-> 0, failedAt |-> 0,
   refunds |-> <<>>]

\* lines 500, 528, 546: `shopease-${orderId}-${Date.now()}` for flutterwave
\* and paystack, `TXN-${orderId}-${Date.now()}` for bank_transfer
Reference(method, orderId, now) ==
  <<IF method = "bank_transfer" THEN "TXN" ELSE "shopease", orderId, now>>

\* the largest Date.now() read so far: the stamps of the stored references
\* and the stamps of the handlers that read the clock and have not stored yet
LatestStamp ==
  LET stamps == {payments[p].gatewayReference[3] :
                   p \in {k \in DOMAIN payments :
                            payments[k].gatewayReference # NoReference}}
                \cup {req[r].ref[3] :
                        r \in {k \in Reqs : /\ req[k].op = "initiatePayment"
                                             /\ req[k].pc = "ip_ref"}}
  IN IF stamps = {} THEN 0
     ELSE CHOOSE t \in stamps : \A x \in stamps : x <= t

\* Date.now(): the millisecond clock never runs backwards, and it advances by
\* at least one between the arrival of one request and the arrival of the
\* next; two handlers that are both in flight may read the same millisecond
\* or two different ones.
DateNow == {t \in {2 * started, 2 * started + 1} : t >= LatestStamp}

\* line 487: payment.save(); the card method has nothing more to store. The
\* other methods build the gateway configuration when the save has returned
\* (lines 497-516, 525-534, 544-549): the reference is made from the clock
\* read here and kept by the handler until its second save()
InitiateCreate(r) ==
  /\ req[r].op = "initiatePayment" /\ req[r].pc = "ip_create"
  /\ LET payment == NewPayment(req[r].order, req[r].user, req[r].total, req[r].method)
     IN IF payment.gateway \notin GatewayEnum
        THEN /\ Respond(r, IpResp(req[r], 500, "server_error"))
             /\ UNCHANGED payments
        ELSE /\ payments' = Append(payments, payment)
             /\ IF req[r].method = "card"
                THEN Respond(r, IpResp(req[r], 200, "created"))
                ELSE /\ \E now \in DateNow :
                          req' = [req EXCEPT
                                    ![r].payment = Len(payments) + 1,
                                    ![r].ref = Reference(req[r].method,
                                                         req[r].order, now),
                                    ![r].pc = "ip_ref"]
                     /\ UNCHANGED last
  /\ UNCHANGED <<products, orders, carts, started, jsonMounted>>

\* lines 518-519, 536-537, 551-553: payment.gatewayReference = the reference
\* of the configuration, second save()
InitiateRef(r) ==
  /\ req[r].op = "initiatePayment" /\ req[r].pc = "ip_ref"
  /\ payments' = [payments EXCEPT ![req[r].payment] =
       [@ EXCEPT !.gatewayReference = req[r].ref,
                 !.status = IF req[r].method = "bank_transfer"
                            THEN "processing" ELSE @]]
  /\ Respond(r, IpResp(req[r], 200, "created"))
  /\ UNCHANGED <<products, orders, carts, started, jsonMounted>>

\* ======================= POST /api/payments/verify/:paymentId ============
VpResp(me, code, kind) ==
  [op |-> "verifyPayment", key |-> me.payment, code |-> code, kind |-> kind]

PaymentArgs == {p \in OrderIds : p <= Len(payments) + 1}

\* the amount of a Payment in the unit the gateway reports: paystack
\* answers in hundredths (the adapter divides data.data.amount by 100)
Minor(gateway, amount) == IF gateway = "paystack" THEN amount * 100 ELSE amount

\* what axios.get to the provider's verification endpoint can bring back for
\* a Payment: a thrown request error, or a body with a status and an amount
\* just below or equal to the Payment amount
GatewayAnswers(payment) ==
  {[status |-> "unavailable", amount |-> 0]} \cup
  [status : {"success", "failed"},
   amount : {Minor(payment.gateway, payment.amount) - 1,
             Minor(payment.gateway, payment.amount)}]

\* lines 856 and 885: data.amount, data.data.amount / 100 (whole units here)
ConfirmedAmount(gateway, amount) ==
  IF gateway = "paystack" THEN amount \div 100 ELSE amount

\* lines 846-873, 875-902: the adapters turn every answer, and a thrown
\* request error, into a verification result
VerificationResult(payment, answer) ==
  IF answer.status = "unavailable"
  THEN [verified |-> FALSE, transactionId |-> "", amount |-> 0,
        message |-> "Payment verification service unavailable"]
  ELSE IF /\ answer.status = "success"
          /\ ConfirmedAmount(payment.gateway, answer.amount) >= payment.amount
  THEN [verified |-> TRUE, transactionId |-> "T1",
        amount |-> ConfirmedAmount(payment.gateway, answer.amount),
        message |-> ""]
  ELSE [verified |-> FALSE, transactionId |-> "", amount |-> 0,
        message |-> "Payment verification failed"]

\* the answers to the verification calls of the stored Payments
AllAnswers == UNION {GatewayAnswers(payments[p]) : p \in DOMAIN payments}

\* line 589: Payment.findById(paymentId)
VerifyStart(r, u, p, c) ==
  /\ CanStart(r, c)
  /\ started' = started + 1
  /\ LET me == [op |-> "verifyPayment", pc |-> "vp_populate", n |-> started + 1,
                user |-> u, payment |-> p, doc |-> None, orderDoc |-> None,
                answer |-> "", result |-> None]
     IN IF p > Len(payments)
        THEN Respond(r, VpResp(me, 404, "not_found"))
        ELSE /\ req' = [req EXCEPT ![r] = [me EXCEPT !.doc = payments[p]]]
             /\ UNCHANGED last
  /\ UNCHANGED <<products, orders, payments, carts, jsonMounted>>

\* lines 589-615: populate('order'), ownership, the gateway round trip
VerifyPopulate(r, answer) ==
  /\ req[r].op = "verifyPayment" /\ req[r].pc = "vp_populate"
  /\ answer \in GatewayAnswers(req[r].doc)
  /\ IF req[r].doc.user # req[r].user
     THEN Respond(r, VpResp(req[r], 403, "forbidden"))
     ELSE /\ req' = [req EXCEPT
               ![r].orderDoc = orders[req[r].doc.order],
               ![r].answer = answer.status,
               ![r].result = VerificationResult(req[r].doc, answer),
               ![r].pc = "vp_mark"]
          /\ UNCHANGED last
  /\ UNCHANGED <<products, orders, payments, carts, started, jsonMounted>>

\* axios.get(url, { headers }) passes no `timeout`; the default of axios is
\* 0, which never abandons a request
AxiosTimeout == 0

\* lines 604-615, 848-852, 877-881: the gateway never answers the
\* verification call; the awaited axios.get settles (rejecting, like an
\* unreachable gateway) only when a timeout is configured
VerifySilence(r) ==
  /\ req[r].op = "verifyPayment" /\ req[r].pc = "vp_populate"
  /\ req[r].doc.user = req[r].user
  /\ req' = [req EXCEPT
       ![r].orderDoc = orders[req[r].doc.order],
       ![r].answer = IF AxiosTimeout > 0 THEN "unavailable" ELSE "silent",
       ![r].result = IF AxiosTimeout > 0
                     THEN VerificationResult(req[r].doc,
                            [status |-> "unavailable", amount |-> 0])
                     ELSE None,
       ![r].pc = IF AxiosTimeout > 0 THEN "vp_mark" ELSE "vp_waiting"]
  /\ UNCHANGED <<products, orders, payments, carts, started, last, jsonMounted>>

\* lines 617-619 and 640-646
VerifyMark(r) ==
  /\ req[r].op = "verifyPayment" /\ req[r].pc = "vp_mark"
  /\ IF req[r].result.verified
     THEN /\ payments' = [payments EXCEPT ![req[r].payment] =
               MarkCompleted(@, req[r].doc, req[r].result.transactionId, req[r].n)]
          /\ req' = [req EXCEPT ![r].pc = "vp_order"]
          /\ UNCHANGED last
     ELSE /\ payments' = [payments EXCEPT ![req[r].payment] =
               MarkFailed(@, req[r].doc, req[r].result.message, req[r].n)]
          /\ Respond(r, VpResp(req[r], 400, "failed"))
  /\ UNCHANGED <<products, orders, carts, started, jsonMounted>>

\* lines 621-639: payment.order.status = 'processing'; order.save()
VerifyOrderSave(r) ==
  /\ req[r].op = "verifyPayment" /\ req[r].pc = "vp_order"
  /\ orders' = [orders EXCEPT ![req[r].doc.order] =
                  OrderSave(@, req[r].orderDoc, "processing", req[r].n)]
  /\ Respond(r, VpResp(req[r], 200, "verified"))
  /\ UNCHANGED <<products, payments, carts, started, jsonMounted>>

\* ======================= POST /api/payments/webhook/:gateway =============
Gateways == {"flutterwave", "paystack"}

\* header values are tuples; <<>> is an absent header
FlutterwaveSecretHash == <<"secret-hash">>

\* ---- request bodies --------------------------------------------------------
\* a JSON value held as a JavaScript object
Object(body) == <<"object", body>>

\* JSON.stringify(value): the JSON text of the value
JsonStringify(value) == <<"json", value>>

\* the bytes a gateway posts: the JSON text of its payload
RawBody(body) == JsonStringify(Object(body))

\* a Buffer holding the bytes of a text; JSON.stringify of it is the text of
\* {"type":"Buffer","data":[...]}, not the text it holds
Buffer(text) == <<"buffer", text>>

\* lines 767 and 808: express.raw({ type: 'application/json' }) hands the
\* handler the bytes as a Buffer, unless a parser mounted ahead of the router
\* has read the body already: then req.body stays the parsed object
ReqBody(body) == IF jsonMounted THEN Object(body) ELSE Buffer(RawBody(body))

\* line 776: JSON.parse(req.body) converts its argument to a string first: a
\* Buffer gives the text it holds, an object gives "[object Object]", which
\* is a SyntaxError
JsonParseThrows(value) == value[1] # "buffer"

\* the value the text in the Buffer denotes
JsonParse(value) == value[2][2][2]

\* createHmac('sha512', secret).update(text).digest('hex')
PaystackHmac(text) == <<"hmac", text>>

NoHeader == <<>>

FlutterwaveSignatureAnyHeader(header) == header # NoHeader

\* line 772: !signature || signature !== secretHash
FlutterwaveSignatureOk(header) ==
  header # NoHeader /\ header = FlutterwaveSecretHash

\* lines 811-813: the digest of JSON.stringify(req.body) against the header
PaystackSignatureOk(header, body) ==
  PaystackHmac(JsonStringify(ReqBody(body))) = header

SignatureOk(g, header, body) ==
  IF g = "flutterwave" THEN FlutterwaveSignatureOk(header)
  ELSE PaystackSignatureOk(header, body)

Forged == <<"forged">>

\* the signature the gateway sends with a payload: the shared hash, or the
\* digest of the bytes it posts
GatewaySignature(g, body) ==
  IF g = "flutterwave" THEN FlutterwaveSecretHash ELSE PaystackHmac(RawBody(body))

\* the headers a sender can present with a body: none, a wrong one, the
\* gateway's, and the digest of the body as the handler stringifies it
Headers(g, body) ==
  {NoHeader, Forged, GatewaySignature(g, body)}
    \cup (IF g = "paystack" THEN {PaystackHmac(JsonStringify(ReqBody(body)))} ELSE {})

Events == {"success", "other"}

\* a reference no payment carries
UnknownRef == <<"shopease", 0, 0>>

RefArgs == {payments[p].gatewayReference : p \in DOMAIN payments} \cup {UnknownRef}

WebhookBodies == [event : Events, ref : RefArgs]

\* the JSON object {}: no event, no data
EmptyBodies == {[event |-> "empty", ref |-> UnknownRef]}

\* lines 776-779: const { data } = JSON.parse(req.body); data.status: the
\* parse throws on an object, and data.status throws a TypeError when the
\* payload has no data. Lines 817-819: const { event, data } = req.body never
\* throws.
ReadThrows(g, body) ==
  /\ g = "flutterwave"
  /\ \/ JsonParseThrows(ReqBody(body))
     \/ JsonParse(ReqBody(body)).event = "empty"

\* lines 779 and 819: data.status === 'successful' of the parsed payload;
\* event === 'charge.success' of req.body, which is undefined on a Buffer
ChargeSucceeded(g, body) ==
  IF g = "flutterwave" THEN JsonParse(ReqBody(body)).event = "success"
  ELSE ReqBody(body)[1] = "object" /\ ReqBody(body)[2].event = "success"

\* Payment.findOne({ gatewayReference: ref }): the first match, 0 if none
FindByReference(ref) ==
  IF \E p \in DOMAIN payments : payments[p].gatewayReference = ref
  THEN CHOOSE p \in DOMAIN payments :
         /\ payments[p].gatewayReference = ref
         /\ \A k \in DOMAIN payments : payments[k].gatewayReference = ref => p <= k
  ELSE None

\* lines 782 and 822: payment.status === 'pending'
StillPending(payment) == payment.status = "pending"

WhResp(me, code, kind) ==
  [op |-> "webhook", key |-> me.payment, code |-> code, kind |-> kind]

\* a delivery arrives: gateway route, signature header, JSON payload posted
WebhookStart(r, g, header, body, c) ==
  /\ CanStart(r, c)
  /\ started' = started + 1
  /\ req' = [req EXCEPT ![r] =
       [op |-> "webhook", pc |-> "wh_check", n |-> started + 1,
        gateway |-> g, header |-> header, body |-> body,
        payment |-> None, doc |-> None, orderDoc |-> None]]
  /\ UNCHANGED <<products, orders, payments, carts, last, jsonMounted>>

\* lines 769-782 and 810-822: signature, event type, lookup, status check
WebhookCheck(r) ==
  /\ req[r].op = "webhook" /\ req[r].pc = "wh_check"
  /\ LET me == req[r]
         p == FindByReference(me.body.ref)
     IN IF ~SignatureOk(me.gateway, me.header, me.body)
        THEN Respond(r, WhResp(me, 401, "invalid_signature"))
        ELSE IF ReadThrows(me.gateway, me.body)
        THEN Respond(r, WhResp(me, 500, "processing_failed"))
        ELSE IF ~ChargeSucceeded(me.gateway, me.body)
        THEN Respond(r, WhResp(me, 200, "ignored"))
        ELSE IF p = None
        THEN Respond(r, WhResp(me, 200, "unknown"))
        ELSE IF ~StillPending(payments[p])
        THEN Respond(r, WhResp([me EXCEPT !.payment = p], 200, "duplicate"))
        ELSE /\ req' = [req EXCEPT ![r] =
                          [me EXCEPT !.payment = p, !.doc = payments[p],
                                     !.pc = "wh_mark"]]
             /\ UNCHANGED last
  /\ UNCHANGED <<products, orders, payments, carts, started, jsonMounted>>

\* lines 783-787 and 823-827: payment.markCompleted(data.id, ...)
WebhookMark(r) ==
  /\ req[r].op = "webhook" /\ req[r].pc = "wh_mark"
  /\ payments' = [payments EXCEPT ![req[r].payment] =
                    MarkCompleted(@, req[r].doc, "T1", req[r].n)]
  /\ req' = [req EXCEPT ![r].pc = "wh_order_find"]
  /\ UNCHANGED <<products, orders, carts, started, last, jsonMounted>>

\* lines 790 and 830: Order.findById(payment.order)
WebhookOrderFind(r) ==
  /\ req[r].op = "webhook" /\ req[r].pc = "wh_order_find"
  /\ req' = [req EXCEPT ![r].orderDoc = orders[req[r].doc.order],
                        ![r].pc = "wh_order_save"]
  /\ UNCHANGED <<products, orders, payments, carts, started, last, jsonMounted>>

\* lines 791-798 and 831-838: order.status = 'processing'; order.save()
WebhookOrderSave(r) ==
  /\ req[r].op = "webhook" /\ req[r].pc = "wh_order_save"
  /\ orders' = [orders EXCEPT ![req[r].doc.order] =
                  OrderSave(@, req[r].orderDoc, "processing", req[r].n)]
  /\ Respond(r, WhResp(req[r], 200, "completed"))
  /\ UNCHANGED <<products, payments, carts, started, jsonMounted>>

\* ======================= Payment.addRefund ===============================
\* virtual totalRefunded: refunds.reduce((total, refund) => total + refund.amount, 0)
RECURSIVE TotalRefunded(_)
TotalRefunded(refunds) ==
  IF refunds = <<>> THEN 0
  ELSE Head(refunds).amount + TotalRefunded(Tail(refunds))

RefundFitsAlone(doc, amount) == amount <= doc.amount

\* line 288, negated: this.totalRefunded + amount > this.amount
RefundFits(doc, amount) == TotalRefunded(doc.refunds) + amount <= doc.amount

\* lines 292-304: push the refund, then the status from totalRefunded + amount,
\* totalRefunded being read after the push
Refunded(doc, amount, n) ==
  LET pushed == Append(doc.refunds, [amount |-> amount, refundedAt |-> n])
  IN [doc EXCEPT !.refunds = pushed,
                 !.status = IF TotalRefunded(pushed) + amount >= doc.amount
                            THEN "refunded" ELSE "partially_refunded"]

\* amounts a caller asks to refund of a Payment of Total(PriceA)
RefundAmounts == {0, 5000, 8250, Total(PriceA), Total(PriceA) + 750}

RfResp(p, amount, kind) ==
  [op |-> "addRefund", key |-> p, code |-> 0, kind |-> kind, amount |-> amount]

\* payment.addRefund(amount, reason) on the stored Payment p: the two throws,
\* or the push, the status and save()
AddRefund(r, p, amount, c) ==
  /\ CanStart(r, c)
  /\ p \in DOMAIN payments
  /\ started' = started + 1
  /\ IF amount <= 0
     THEN /\ Respond(r, RfResp(p, amount, "invalid_amount"))
          /\ UNCHANGED payments
     ELSE IF ~RefundFits(payments[p], amount)
     THEN /\ Respond(r, RfResp(p, amount, "exceeds"))
          /\ UNCHANGED payments
     ELSE /\ payments' = [payments EXCEPT ![p] = Refunded(@, amount, started + 1)]
          /\ Respond(r, RfResp(p, amount, "refunded"))
  /\ UNCHANGED <<products, orders, carts, jsonMounted>>

\* ======================= cart routes =====================================
\* A product id arrives as a 24-digit hexadecimal string; isMongoId accepts
\* the digits A-F in either case.  Mongoose casts the string to an ObjectId
\* (findById, a pushed cart line), and ObjectId.toString() prints lower-case
\* digits.  "PA" is the upper-case spelling of the id of product "pA".
ProductIdArgs == Products \cup {"pX", "PA"}

CastObjectId(id) == IF id = "PA" THEN "pA" ELSE id

\* ObjectId.prototype.toString()
ObjectIdToString(oid) == oid

\* findIndex(item => item.product.toString() === productId): the index of
\* the first line that compares equal to the string, 0 when there is none
IndexOf(items, id) ==
  IF \E i \in DOMAIN items : ObjectIdToString(items[i].product) = id
  THEN CHOOSE i \in DOMAIN items :
         /\ ObjectIdToString(items[i].product) = id
         /\ \A j \in DOMAIN items : ObjectIdToString(items[j].product) = id => i <= j
  ELSE 0

\* items.splice(idx, 1)
Splice(items, idx) ==
  [i \in 1..(Len(items) - 1) |-> IF i < idx THEN items[i] ELSE items[i + 1]]

\* ---- POST /api/cart ----
AcResp(me, code, kind) ==
  [op |-> "addToCart", key |-> 0, code |-> code, kind |-> kind]

\* body('quantity').isInt({ min: 1, max: 99 })
ValidCartQuantity(q) == q >= 1 /\ q <= 99

CartQuantities == {0, 1, 2}

\* lines 99-132: validationResult, Product.findById and the three checks
AddToCartStart(r, u, p, q, c) ==
  /\ CanStart(r, c)
  /\ started' = started + 1
  /\ LET me == [op |-> "addToCart", pc |-> "ac_user", n |-> started + 1,
                user |-> u, product |-> p, quantity |-> q,
                stock |-> 0, track |-> FALSE, idx |-> 0, newQuantity |-> 0,
                items |-> <<>>]
         pid == CastObjectId(p)
     IN IF ~ValidCartQuantity(q)
        THEN Respond(r, AcResp(me, 400, "validation"))
        ELSE IF pid \notin Products
        THEN Respond(r, AcResp(me, 404, "not_found"))
        ELSE IF products[pid].status # "active"
        THEN Respond(r, AcResp(me, 400, "unavailable"))
        ELSE IF products[pid].track /\ products[pid].quantity < q
        THEN Respond(r, AcResp(me, 400, "insufficient"))
        ELSE /\ req' = [req EXCEPT ![r] =
                  [me EXCEPT !.stock = products[pid].quantity,
                             !.track = products[pid].track]]
             /\ UNCHANGED last
  /\ UNCHANGED <<products, orders, payments, carts, jsonMounted>>

\* lines 134-160: User.findById, the line of the product, the stock check
AddToCartUser(r) ==
  /\ req[r].op = "addToCart" /\ req[r].pc = "ac_user"
  /\ LET items == carts[req[r].user]
         idx == IndexOf(items, req[r].product)
         newQuantity == IF idx > 0 THEN items[idx].quantity + req[r].quantity
                        ELSE req[r].quantity
     IN IF idx > 0 /\ req[r].track /\ req[r].stock < newQuantity
        THEN Respond(r, AcResp(req[r], 400, "insufficient"))
        ELSE /\ req' = [req EXCEPT
                  ![r].idx = idx,
                  ![r].newQuantity = newQuantity,
                  ![r].items = IF idx > 0
                               THEN [items EXCEPT ![idx].quantity = newQuantity]
                               ELSE Append(items, Line(CastObjectId(req[r].product),
                                                       newQuantity)),
                  ![r].pc = "ac_save"]
             /\ UNCHANGED last
  /\ UNCHANGED <<products, orders, payments, carts, started, jsonMounted>>

AddToCartSaveReserving(r) ==
  /\ req[r].op = "addToCart" /\ req[r].pc = "ac_save"
  /\ carts' = [carts EXCEPT ![req[r].user] =
                 IF req[r].idx > 0
                 THEN [@ EXCEPT ![req[r].idx].quantity = req[r].newQuantity]
                 ELSE Append(@, Line(CastObjectId(req[r].product),
                                     req[r].newQuantity))]
  /\ products' = [products EXCEPT ![CastObjectId(req[r].product)].quantity =
                    IF req[r].track THEN @ - req[r].quantity ELSE @]
  /\ req' = [req EXCEPT ![r].pc = "ac_populate"]
  /\ UNCHANGED <<orders, payments, started, last, jsonMounted>>

\* lines 162-163: user.save() of the changed or pushed line
AddToCartSave(r) ==
  /\ req[r].op = "addToCart" /\ req[r].pc = "ac_save"
  /\ carts' = [carts EXCEPT ![req[r].user] =
                 IF req[r].idx > 0
                 THEN [@ EXCEPT ![req[r].idx].quantity = req[r].newQuantity]
                 ELSE Append(@, Line(CastObjectId(req[r].product),
                                     req[r].newQuantity))]
  /\ req' = [req EXCEPT ![r].pc = "ac_populate"]
  /\ UNCHANGED <<products, orders, payments, started, last, jsonMounted>>

\* line 171: find(item => item.product._id.toString() === productId) over
\* the populated lines, in order: a line whose product does not exist is
\* populated with null and item.product._id throws when find reaches it
AddedItemFound(items, productId) ==
  \E i \in DOMAIN items :
     /\ items[i].product \in Products
     /\ ObjectIdToString(items[i].product) = productId
     /\ \A j \in 1..(i - 1) : items[j].product \in Products

\* lines 166-191: user.populate(); the added line is looked up; the throw
\* inside find, or addedItem.product of no line, is a TypeError, which the
\* catch answers with 500
AddToCartPopulate(r) ==
  /\ req[r].op = "addToCart" /\ req[r].pc = "ac_populate"
  /\ IF AddedItemFound(req[r].items, req[r].product)
     THEN Respond(r, AcResp(req[r], 201, "added"))
     ELSE Respond(r, AcResp(req[r], 500, "server_error"))
  /\ UNCHANGED <<products, orders, payments, carts, started, jsonMounted>>

\* ---- GET /api/cart ----
\* dropped: the number of lines the request removed from the stored cart
GcResp(me, code, kind, dropped) ==
  [op |-> "getCart", key |-> 0, code |-> code, kind |-> kind, dropped |-> dropped]

\* line 33: product && product.status === 'active' &&
\* (product.inventory.quantity > 0 || !product.inventory.trackInventory);
\* populate leaves null for a line whose product does not exist
ValidCartItem(item) ==
  /\ item.product \in Products
  /\ products[item.product].status = "active"
  /\ products[item.product].quantity > 0 \/ ~products[item.product].track

\* line 14: User.findById(req.user._id)
GetCartStart(r, u, c) ==
  /\ CanStart(r, c)
  /\ started' = started + 1
  /\ req' = [req EXCEPT ![r] =
       [op |-> "getCart", pc |-> "gc_populate", n |-> started + 1, user |-> u,
        found |-> carts[u], items |-> carts[u]]]
  /\ UNCHANGED <<products, orders, payments, carts, last, jsonMounted>>

\* lines 14-59: populate the products of the lines, keep the valid lines;
\* answer at once when every line is valid
GetCartPopulate(r) ==
  /\ req[r].op = "getCart" /\ req[r].pc = "gc_populate"
  /\ LET validCartItems == SelectSeq(req[r].items, ValidCartItem)
     IN IF Len(validCartItems) = Len(req[r].items)
        THEN Respond(r, GcResp(req[r], 200, "cart", 0))
        ELSE /\ req' = [req EXCEPT ![r].items = validCartItems,
                                   ![r].pc = "gc_save"]
             /\ UNCHANGED last
  /\ UNCHANGED <<products, orders, payments, carts, started, jsonMounted>>

\* lines 55-81: user.cart.items = the valid lines; user.save(); respond
GetCartSave(r) ==
  /\ req[r].op = "getCart" /\ req[r].pc = "gc_save"
  /\ carts' = [carts EXCEPT ![req[r].user] = req[r].items]
  /\ Respond(r, GcResp(req[r], 200, "cart", Len(req[r].found) - Len(req[r].items)))
  /\ UNCHANGED <<products, orders, payments, started, jsonMounted>>

\* ---- PUT /api/cart/:productId ----
UcResp(me, code, kind) ==
  [op |-> "updateCart", key |-> 0, code |-> code, kind |-> kind]

\* body('quantity').isInt({ min: 0, max: 99 })
ValidUpdateQuantity(q) == q >= 0 /\ q <= 99

UpdateQuantities == {0, 1, 2, 100}

\* lines 202-231: validationResult, User.findById, findIndex, splice
UpdateCartStart(r, u, p, q, c) ==
  /\ CanStart(r, c)
  /\ started' = started + 1
  /\ LET me == [op |-> "updateCart", pc |-> "uc_product", n |-> started + 1,
                user |-> u, product |-> p, quantity |-> q,
                items |-> carts[u], idx |-> IndexOf(carts[u], p)]
     IN IF ~ValidUpdateQuantity(q)
        THEN Respond(r, UcResp(me, 400, "validation"))
        ELSE IF me.idx = 0
        THEN Respond(r, UcResp(me, 404, "not_in_cart"))
        ELSE /\ req' = [req EXCEPT ![r] =
                  IF q = 0
                  THEN [me EXCEPT !.items = Splice(@, me.idx), !.pc = "uc_save"]
                  ELSE me]
             /\ UNCHANGED last
  /\ UNCHANGED <<products, orders, payments, carts, jsonMounted>>

\* lines 232-249: Product.findById, availability and stock, the new quantity
UpdateCartProduct(r) ==
  /\ req[r].op = "updateCart" /\ req[r].pc = "uc_product"
  /\ LET pid == CastObjectId(req[r].product)
     IN IF pid \notin Products \/ products[pid].status # "active"
        THEN Respond(r, UcResp(req[r], 400, "unavailable"))
        ELSE IF products[pid].track /\ products[pid].quantity < req[r].quantity
        THEN Respond(r, UcResp(req[r], 400, "insufficient"))
        ELSE /\ req' = [req EXCEPT
                  ![r].items = [@ EXCEPT ![req[r].idx].quantity = req[r].quantity],
                  ![r].pc = "uc_save"]
             /\ UNCHANGED last
  /\ UNCHANGED <<products, orders, payments, carts, started, jsonMounted>>

\* lines 252-258: user.save(); respond
UpdateCartSave(r) ==
  /\ req[r].op = "updateCart" /\ req[r].pc = "uc_save"
  /\ carts' = [carts EXCEPT ![req[r].user] = req[r].items]
  /\ Respond(r, UcResp(req[r], 200, "ok"))
  /\ UNCHANGED <<products, orders, payments, started, jsonMounted>>

\* ---- DELETE /api/cart/:productId ----
RcResp(me, code, kind) ==
  [op |-> "removeFromCart", key |-> 0, code |-> code, kind |-> kind]

\* lines 274-299: validationResult, User.findById, findIndex, splice
RemoveFromCartStart(r, u, p, c) ==
  /\ CanStart(r, c)
  /\ started' = started + 1
  /\ LET me == [op |-> "removeFromCart", pc |-> "rc_save", n |-> started + 1,
                user |-> u, product |-> p,
                items |-> carts[u], idx |-> IndexOf(carts[u], p)]
     IN IF me.idx = 0
        THEN Respond(r, RcResp(me, 404, "not_in_cart"))
        ELSE /\ req' = [req EXCEPT ![r] = [me EXCEPT !.items = Splice(@, me.idx)]]
             /\ UNCHANGED last
  /\ UNCHANGED <<products, orders, payments, carts, jsonMounted>>

\* lines 300-306: user.save(); respond
RemoveFromCartSave(r) ==
  /\ req[r].op = "removeFromCart" /\ req[r].pc = "rc_save"
  /\ carts' = [carts EXCEPT ![req[r].user] = req[r].items]
  /\ Respond(r, RcResp(req[r], 200, "ok"))
  /\ UNCHANGED <<products, orders, payments, started, jsonMounted>>

\* ---- DELETE /api/cart ----
CcResp(me, code, kind) ==
  [op |-> "clearCart", key |-> 0, code |-> code, kind |-> kind]

\* lines 319-321: User.findById; user.cart.items = []
ClearCartStart(r, u, c) ==
  /\ CanStart(r, c)
  /\ started' = started + 1
  /\ req' = [req EXCEPT ![r] =
       [op |-> "clearCart", pc |-> "cc_save", n |-> started + 1, user |-> u]]
  /\ UNCHANGED <<products, orders, payments, carts, last, jsonMounted>>

\* lines 322-328: user.save(); respond
ClearCartSave(r) ==
  /\ req[r].op = "clearCart" /\ req[r].pc = "cc_save"
  /\ carts' = [carts EXCEPT ![req[r].user] = <<>>]
  /\ Respond(r, CcResp(req[r], 200, "ok"))
  /\ UNCHANGED <<products, orders, payments, started, jsonMounted>>

\* ---- POST /api/cart/merge ----
McResp(me, code, kind) ==
  [op |-> "mergeCart", key |-> 0, code |-> code, kind |-> kind]

\* body('guestCart.*.quantity').isInt({ min: 1 })
ValidGuestCart(guestCart) ==
  \A i \in DOMAIN guestCart : guestCart[i].quantity >= 1

GuestCarts ==
  { <<>>, <<Line("pA", 0)>>, <<Line("pA", 2)>>, <<Line("pB", 1)>>,
    <<Line("pX", 1)>>, <<Line("pA", 1), Line("pA", 2)>>,
    <<Line("pA", 1), Line("PA", 1)>> }

Max(a, b) == IF a >= b THEN a ELSE b

\* lines 363-389: one guest line against the product and the loaded cart
MergedItem(items, product, guestItem) ==
  LET idx == IndexOf(items, guestItem.product)
  IN IF idx > 0
     THEN LET newQty == Max(items[idx].quantity, guestItem.quantity)
          IN IF product.track /\ product.quantity >= newQty
             THEN [items EXCEPT ![idx].quantity = newQty]
             ELSE items
     ELSE Append(items, Line(CastObjectId(guestItem.product), guestItem.quantity))

\* lines 347-358: validationResult, User.findById
MergeCartStart(r, u, guestCart, c) ==
  /\ CanStart(r, c)
  /\ started' = started + 1
  /\ LET me == [op |-> "mergeCart", n |-> started + 1, user |-> u,
                pc |-> IF guestCart = <<>> THEN "mc_save" ELSE "mc_item",
                guestCart |-> guestCart, i |-> 1, items |-> carts[u]]
     IN IF ~ValidGuestCart(guestCart)
        THEN Respond(r, McResp(me, 400, "validation"))
        ELSE req' = [req EXCEPT ![r] = me] /\ UNCHANGED last
  /\ UNCHANGED <<products, orders, payments, carts, jsonMounted>>

\* lines 361-390: Product.findById of guest line i, skip or merge it
MergeCartItem(r) ==
  /\ req[r].op = "mergeCart" /\ req[r].pc = "mc_item"
  /\ LET guestItem == req[r].guestCart[req[r].i]
         pid == CastObjectId(guestItem.product)
         skip == \/ pid \notin Products
                 \/ products[pid].status # "active"
                 \/ products[pid].track /\ products[pid].quantity < guestItem.quantity
     IN req' = [req EXCEPT
          ![r].items = IF skip THEN @ ELSE MergedItem(@, products[pid], guestItem),
          ![r].i = @ + 1,
          ![r].pc = IF req[r].i = Len(req[r].guestCart) THEN "mc_save" ELSE "mc_item"]
  /\ UNCHANGED <<products, orders, payments, carts, started, last, jsonMounted>>

\* lines 392-398: user.save(); respond
MergeCartSave(r) ==
  /\ req[r].op = "mergeCart" /\ req[r].pc = "mc_save"
  /\ carts' = [carts EXCEPT ![req[r].user] = req[r].items]
  /\ Respond(r, McResp(req[r], 200, "ok"))
  /\ UNCHANGED <<products, orders, payments, started, jsonMounted>>

\* ---- the cart methods of the User model ----
\* The methods act on a loaded User document and end in this.save(); they
\* answer no request, so the response code is 0 and the kind tells whether
\* the save stored the cart, the save was rejected or the method threw.
CmResp(method, kind) == [op |-> method, key |-> 0, code |-> 0, kind |-> kind]

\* cart.items[].quantity: { type: Number, required: true, min: 1 }, which
\* save() validates
ValidCart(items) == \A i \in DOMAIN items : items[i].quantity >= 1

\* quantities a caller passes to addToCart and to updateCartItemQuantity
AddedQuantities == {-1, 1, 2}

SetQuantities == {0, 2, 100}

\* user.addToCart(productId, quantity): the line whose printed product id
\* equals productId.toString() gets quantity more, or a line is pushed
addToCart(r, u, productId, quantity, c) ==
  /\ CanStart(r, c)
  /\ started' = started + 1
  /\ LET cartItemIndex == IndexOf(carts[u], productId)
         items == IF cartItemIndex > 0
                  THEN [carts[u] EXCEPT ![cartItemIndex].quantity = @ + quantity]
                  ELSE Append(carts[u], Line(CastObjectId(productId), quantity))
     IN IF ValidCart(items)
        THEN /\ carts' = [carts EXCEPT ![u] = items]
             /\ Respond(r, CmResp("User.addToCart", "saved"))
        ELSE /\ Respond(r, CmResp("User.addToCart", "validation"))
             /\ UNCHANGED carts
  /\ UNCHANGED <<products, orders, payments, jsonMounted>>

\* this.cart.items.filter(item => item.product.toString() !==
\* productId.toString())
WithoutProduct(items, productId) ==
  LET Other(item) == ObjectIdToString(item.product) # productId
  IN SelectSeq(items, Other)

\* user.removeFromCart(productId): every line of the product goes, and the
\* cart is saved whether there was one or not
removeFromCart(r, u, productId, c) ==
  /\ CanStart(r, c)
  /\ started' = started + 1
  /\ carts' = [carts EXCEPT ![u] = WithoutProduct(@, productId)]
  /\ Respond(r, CmResp("User.removeFromCart", "saved"))
  /\ UNCHANGED <<products, orders, payments, jsonMounted>>

\* user.updateCartItemQuantity(productId, quantity): the first line of the
\* product gets the quantity, or goes through removeFromCart when the
\* quantity is 0 or less; no line of the product throws
updateCartItemQuantity(r, u, productId, quantity, c) ==
  /\ CanStart(r, c)
  /\ started' = started + 1
  /\ LET cartItem == IndexOf(carts[u], productId)
     IN IF cartItem = 0
        THEN /\ Respond(r, CmResp("User.updateCartItemQuantity", "throws"))
             /\ UNCHANGED carts
        ELSE /\ carts' = [carts EXCEPT ![u] =
                            IF quantity <= 0 THEN WithoutProduct(@, productId)
                            ELSE [@ EXCEPT ![cartItem].quantity = quantity]]
             /\ Respond(r, CmResp("User.updateCartItemQuantity", "saved"))
  /\ UNCHANGED <<products, orders, payments, jsonMounted>>

\* user.clearCart()
clearCart(r, u, c) ==
  /\ CanStart(r, c)
  /\ started' = started + 1
  /\ carts' = [carts EXCEPT ![u] = <<>>]
  /\ Respond(r, CmResp("User.clearCart", "saved"))
  /\ UNCHANGED <<products, orders, payments, jsonMounted>>

\* ======================= PUT /api/products/:id ==========================
UpResp(me, code, kind) ==
  [op |-> "updateProduct", key |-> 0, code |-> code, kind |-> kind]

\* a request body naming one field of the product
Field(field, value) == [field |-> field, value |-> value]

\* prices an administrator submits (0 is refused by the validator)
PriceUpdates == {0, PriceA, 25000}

\* quantities an administrator submits (-1 is refused by the validator)
QuantityUpdates == {-1, 0, MaxStock}

\* body('status').optional().isIn(['active', 'inactive', 'discontinued'])
ProductStatuses == {"active", "inactive", "discontinued"}

\* the enum of status in the Product schema
ProductStatusEnum == {"active", "inactive", "draft", "archived"}

\* the schema validators save() runs on the paths that were assigned
ProductValid(doc, new) ==
  new.status # doc.status => new.status \in ProductStatusEnum

\* body('price').optional().isFloat({ min: 0.01 })
ValidPrice(price) == price > 0

\* lines 1223-1232: price isFloat min 0.01, inventory.quantity isInt min 0,
\* inventory.trackInventory isBoolean, status isIn
ValidProductUpdate(body) ==
  CASE body.field = "price" -> ValidPrice(body.value)
    [] body.field = "quantity" -> body.value >= 0
    [] body.field = "trackInventory" -> body.value \in BOOLEAN
    [] body.field = "status" -> body.value \in ProductStatuses

\* lines 1255-1283: the fields of the body over the loaded document; the
\* inventory of the body is spread over the inventory of the document
AssignUpdates(doc, body) ==
  CASE body.field = "price" -> [doc EXCEPT !.price = body.value]
    [] body.field = "quantity" -> [doc EXCEPT !.quantity = body.value]
    [] body.field = "trackInventory" -> [doc EXCEPT !.track = body.value]
    [] body.field = "status" -> [doc EXCEPT !.status = body.value]

\* product.save(): price and status are written when they differ from the
\* loaded document; an inventory object that differs from the loaded one is
\* written whole, the fields the body left out with the values loaded
ProductSave(cur, doc, new) ==
  [cur EXCEPT
     !.price = IF new.price # doc.price THEN new.price ELSE @,
     !.status = IF new.status # doc.status THEN new.status ELSE @,
     !.quantity = IF <<new.quantity, new.track>> # <<doc.quantity, doc.track>>
                  THEN new.quantity ELSE @,
     !.track = IF <<new.quantity, new.track>> # <<doc.quantity, doc.track>>
               THEN new.track ELSE @]

\* lines 1236-1253: validationResult, Product.findById
UpdateProductStart(r, p, body, c) ==
  /\ CanStart(r, c)
  /\ started' = started + 1
  /\ LET me == [op |-> "updateProduct", pc |-> "up_save", n |-> started + 1,
                product |-> p, body |-> body, doc |-> None]
     IN IF ~ValidProductUpdate(body)
        THEN Respond(r, UpResp(me, 400, "validation"))
        ELSE IF p \notin Products
        THEN Respond(r, UpResp(me, 404, "not_found"))
        ELSE /\ req' = [req EXCEPT ![r] = [me EXCEPT !.doc = products[p]]]
             /\ UNCHANGED last
  /\ UNCHANGED <<products, orders, payments, carts, jsonMounted>>

UpdateProductSaveRepricing(r) ==
  /\ req[r].op = "updateProduct" /\ req[r].pc = "up_save"
  /\ LET product == AssignUpdates(req[r].doc, req[r].body)
     IN IF ~ProductValid(req[r].doc, product)
        THEN /\ Respond(r, UpResp(req[r], 500, "server_error"))
             /\ UNCHANGED <<products, orders>>
        ELSE /\ products' = [products EXCEPT ![req[r].product] =
                               ProductSave(@, req[r].doc, product)]
             /\ orders' = [o \in DOMAIN orders |->
                  [orders[o] EXCEPT !.items =
                     [i \in DOMAIN @ |->
                        IF @[i].product = req[r].product
                        THEN [@[i] EXCEPT !.price = products'[req[r].product].price]
                        ELSE @[i]]]]
             /\ Respond(r, UpResp(req[r], 200, "ok"))
  /\ UNCHANGED <<payments, carts, started, jsonMounted>>

\* PUT /api/products/:id with one of the bodies { price }, { inventory:
\* { quantity } }, { inventory: { trackInventory } }, { status }
UpdateProductArrives(r, p, c) ==
  \/ \E v \in PriceUpdates : UpdateProductStart(r, p, Field("price", v), c)
  \/ \E v \in QuantityUpdates : UpdateProductStart(r, p, Field("quantity", v), c)
  \/ \E v \in BOOLEAN : UpdateProductStart(r, p, Field("trackInventory", v), c)
  \/ \E v \in ProductStatuses \cup {"deleted"} :
       UpdateProductStart(r, p, Field("status", v), c)

\* lines 1283-1298: Object.assign(product, updates); product.save(); respond;
\* a rejected save is answered 500 by the catch
UpdateProductSave(r) ==
  /\ req[r].op = "updateProduct" /\ req[r].pc = "up_save"
  /\ LET product == AssignUpdates(req[r].doc, req[r].body)
     IN IF ~ProductValid(req[r].doc, product)
        THEN /\ Respond(r, UpResp(req[r], 500, "server_error"))
             /\ UNCHANGED products
        ELSE /\ products' = [products EXCEPT ![req[r].product] =
                               ProductSave(@, req[r].doc, product)]
             /\ Respond(r, UpResp(req[r], 200, "ok"))
  /\ UNCHANGED <<orders, payments, carts, started, jsonMounted>>

\* ======================= DELETE /api/products/:id =======================
DpResp(me, code, kind) ==
  [op |-> "deleteProduct", key |-> 0, code |-> code, kind |-> kind]

\* lines 1310-1327: validationResult, Product.findById
DeleteProductStart(r, p, c) ==
  /\ CanStart(r, c)
  /\ started' = started + 1
  /\ LET me == [op |-> "deleteProduct", pc |-> "dp_save", n |-> started + 1,
                product |-> p, doc |-> None]
     IN IF p \notin Products
        THEN Respond(r, DpResp(me, 404, "not_found"))
        ELSE /\ req' = [req EXCEPT ![r] = [me EXCEPT !.doc = products[p]]]
             /\ UNCHANGED last
  /\ UNCHANGED <<products, orders, payments, carts, jsonMounted>>

\* lines 1329-1336: product.status = 'inactive'; product.save(); respond
DeleteProductSave(r) ==
  /\ req[r].op = "deleteProduct" /\ req[r].pc = "dp_save"
  /\ products' = [products EXCEPT ![req[r].product] =
                    ProductSave(@, req[r].doc, [req[r].doc EXCEPT !.status = "inactive"])]
  /\ Respond(r, DpResp(req[r], 200, "ok"))
  /\ UNCHANGED <<orders, payments, carts, started, jsonMounted>>

\* ---- the inventory method of the Product model ----
\* amounts a caller passes to updateInventory
QuantityChanges == {-3, -1, 5}

\* product.updateInventory(quantityChange) on the stored Product p: a tracked
\* quantity moves by the amount and is saved, unless the sum is negative,
\* which throws before save(); a product that is not tracked is saved as is
updateInventory(r, p, quantityChange, c) ==
  /\ CanStart(r, c)
  /\ started' = started + 1
  /\ IF products[p].track /\ products[p].quantity + quantityChange < 0
     THEN /\ Respond(r, CmResp("Product.updateInventory", "throws"))
          /\ UNCHANGED products
     ELSE /\ products' = [products EXCEPT ![p].quantity =
                            IF products[p].track THEN @ + quantityChange ELSE @]
          /\ Respond(r, CmResp("Product.updateInventory", "saved"))
  /\ UNCHANGED <<orders, payments, carts, jsonMounted>>

\* ---- specifications of the order ledger ---------------------------------
OrderArgs == {o \in OrderIds : o <= Len(orders) + 1}

OrdersNext(c) ==
  \E r \in Reqs :
    \/ \E items \in ItemLists : CreateOrderStart(r, "u1", items, c)
    \/ CreateOrderValidate(r)
    \/ CreateOrderSave(r)
    \/ CreateOrderDecRead(r)
    \/ CreateOrderDecWrite(r)
    \/ CreateOrderCart(r)
    \/ CreateOrderFinish(r)
    \/ \E u \in Users, o \in OrderArgs : CancelStart(r, u, o, c)
    \/ CancelRestoreRead(r)
    \/ CancelRestoreWrite(r)
    \/ CancelSave(r)
    \/ \E o \in OrderArgs, s \in OrderStatuses : TransitionStart(r, o, s, c)
    \/ TransitionSave(r)

Next == OrdersNext([seq |-> FALSE, max |-> MaxOps])

Spec == Init /\ [][Next]_vars

NextSeq == OrdersNext([seq |-> TRUE, max |-> MaxSeqOps])

SpecSeq == Init /\ [][NextSeq]_vars
\* ---- specifications of the payment coordinator -------------------------
\* the catalog the payment specifications start from
InitPay ==
  /\ Init
  /\ products["pA"].quantity = MaxStock
  /\ products["pB"].status = "active"

Concurrent == [seq |-> FALSE, max |-> MaxPayOps]

\* interleaved handlers: the owner orders, pays, verifies; gateways deliver
NextPay ==
  \E r \in Reqs :
    \/ CreateOrderStart(r, "u1", <<Line("pA", 1)>>, Concurrent)
    \/ CreateOrderSave(r)
    \/ CreateOrderDecRead(r)
    \/ CreateOrderDecWrite(r)
    \/ CreateOrderCart(r)
    \/ CreateOrderFinish(r)
    \/ \E o \in OrderArgs, m \in Methods : InitiateStart(r, "u1", o, m, Concurrent)
    \/ InitiateCheck(r)
    \/ InitiateCreate(r)
    \/ InitiateRef(r)
    \/ \E p \in PaymentArgs : VerifyStart(r, "u1", p, Concurrent)
    \/ \E answer \in AllAnswers : VerifyPopulate(r, answer)
    \/ VerifyMark(r)
    \/ VerifyOrderSave(r)
    \/ \E g \in Gateways, body \in WebhookBodies :
         \E header \in Headers(g, body) : WebhookStart(r, g, header, body, Concurrent)
    \/ WebhookCheck(r)
    \/ WebhookMark(r)
    \/ WebhookOrderFind(r)
    \/ WebhookOrderSave(r)

SpecPay == InitPay /\ [][NextPay]_vars

OneByOne == [seq |-> TRUE, max |-> MaxPaySeqOps]

\* requests served one after the other, by any user and the administrator
NextPaySeq ==
  \E r \in Reqs :
    \/ CreateOrderStart(r, "u1", <<Line("pA", 1)>>, OneByOne)
    \/ CreateOrderSave(r)
    \/ CreateOrderDecRead(r)
    \/ CreateOrderDecWrite(r)
    \/ CreateOrderCart(r)
    \/ CreateOrderFinish(r)
    \/ \E u \in Users, o \in OrderArgs : CancelStart(r, u, o, OneByOne)
    \/ CancelRestoreRead(r)
    \/ CancelRestoreWrite(r)
    \/ CancelSave(r)
    \/ \E o \in OrderArgs, s \in OrderStatuses : TransitionStart(r, o, s, OneByOne)
    \/ TransitionSave(r)
    \/ \E u \in Users, o \in OrderArgs, m \in Methods : InitiateStart(r, u, o, m, OneByOne)
    \/ InitiateCheck(r)
    \/ InitiateCreate(r)
    \/ InitiateRef(r)
    \/ \E u \in Users, p \in PaymentArgs : VerifyStart(r, u, p, OneByOne)
    \/ \E answer \in AllAnswers : VerifyPopulate(r, answer)
    \/ VerifyMark(r)
    \/ VerifyOrderSave(r)
    \/ \E g \in Gateways, body \in WebhookBodies :
         \E header \in Headers(g, body) : WebhookStart(r, g, header, body, OneByOne)
    \/ WebhookCheck(r)
    \/ WebhookMark(r)
    \/ WebhookOrderFind(r)
    \/ WebhookOrderSave(r)

SpecPaySeq == InitPay /\ [][NextPaySeq]_vars

\* ---- webhook deliveries of any JSON body, one at a time -------------------
NextHook ==
  \E r \in Reqs :
    \/ CreateOrderStart(r, "u1", <<Line("pA", 1)>>, OneByOne) /\ orders = <<>>
    \/ CreateOrderSave(r)
    \/ CreateOrderDecRead(r)
    \/ CreateOrderDecWrite(r)
    \/ CreateOrderCart(r)
    \/ CreateOrderFinish(r)
    \/ \E m \in Gateways : InitiateStart(r, "u1", 1, m, OneByOne)
    \/ InitiateCheck(r)
    \/ InitiateCreate(r)
    \/ InitiateRef(r)
    \/ \E g \in Gateways, body \in WebhookBodies \cup EmptyBodies :
         \E header \in Headers(g, body) : WebhookStart(r, g, header, body, OneByOne)
    \/ WebhookCheck(r)
    \/ WebhookMark(r)
    \/ WebhookOrderFind(r)
    \/ WebhookOrderSave(r)

SpecHook == InitPay /\ [][NextHook]_vars

\* ---- refunds of one Payment, calls made one after the other -------------
Refunding == [seq |-> TRUE, max |-> MaxRefundOps]

NextRefund ==
  \E r \in Reqs :
    \/ CreateOrderStart(r, "u1", <<Line("pA", 1)>>, Refunding) /\ orders = <<>>
    \/ CreateOrderSave(r)
    \/ CreateOrderDecRead(r)
    \/ CreateOrderDecWrite(r)
    \/ CreateOrderCart(r)
    \/ CreateOrderFinish(r)
    \/ InitiateStart(r, "u1", 1, "paystack", Refunding) /\ payments = <<>>
    \/ InitiateCheck(r)
    \/ InitiateCreate(r)
    \/ InitiateRef(r)
    \/ VerifyStart(r, "u1", 1, Refunding) /\ payments # <<>>
    \/ \E answer \in AllAnswers : VerifyPopulate(r, answer)
    \/ VerifyMark(r)
    \/ VerifyOrderSave(r)
    \/ \E p \in DOMAIN payments, amount \in RefundAmounts :
         AddRefund(r, p, amount, Refunding)

SpecRefund == InitPay /\ [][NextRefund]_vars

\* ---- pricing over a range of catalog prices ------------------------------
\* unit prices around the free-shipping threshold (multiples of 40, on which
\* subtotal * 0.075 is exact in double arithmetic)
PricesA == {PriceA, 25000, 25040}

PricesB == {PriceB, 50000, 50040}

PricingItemLists == ItemLists \cup {<<Line("pB", 1)>>}

InitPricing ==
  /\ \E a \in PricesA, b \in PricesB :
       products =
         [p \in Products |->
            IF p = "pA"
            THEN [status |-> "active", price |-> a, track |-> TRUE, quantity |-> MaxStock]
            ELSE [status |-> "active", price |-> b, track |-> FALSE, quantity |-> 0]]
  /\ orders = <<>>
  /\ payments = <<>>
  /\ carts = [u \in Users |-> <<>>]
  /\ req = [r \in Reqs |-> Idle]
  /\ started = 0
  /\ last = NoResponse
  /\ jsonMounted \in BOOLEAN

Pricing == [seq |-> TRUE, max |-> MaxPriceOps]

NextPricing ==
  \E r \in Reqs :
    \/ \E items \in PricingItemLists : CreateOrderStart(r, "u1", items, Pricing)
    \/ CreateOrderValidate(r)
    \/ CreateOrderSave(r)
    \/ CreateOrderDecRead(r)
    \/ CreateOrderDecWrite(r)
    \/ CreateOrderCart(r)
    \/ CreateOrderFinish(r)

SpecPricing == InitPricing /\ [][NextPricing]_vars

\* ---- orders, payments and catalog price changes, one at a time -----------
Snapshots == [seq |-> TRUE, max |-> MaxSnapOps]

NextSnapshot ==
  \E r \in Reqs :
    \/ \E items \in {<<Line("pA", 1)>>, <<Line("pA", 2)>>} :
         CreateOrderStart(r, "u1", items, Snapshots)
    \/ CreateOrderSave(r)
    \/ CreateOrderDecRead(r)
    \/ CreateOrderDecWrite(r)
    \/ CreateOrderCart(r)
    \/ CreateOrderFinish(r)
    \/ \E o \in OrderArgs : CancelStart(r, "u1", o, Snapshots)
    \/ CancelRestoreRead(r)
    \/ CancelRestoreWrite(r)
    \/ CancelSave(r)
    \/ \E o \in OrderArgs, s \in OrderStatuses : TransitionStart(r, o, s, Snapshots)
    \/ TransitionSave(r)
    \/ \E o \in OrderArgs, m \in Gateways : InitiateStart(r, "u1", o, m, Snapshots)
    \/ InitiateCheck(r)
    \/ InitiateCreate(r)
    \/ InitiateRef(r)
    \/ \E p \in PaymentArgs : VerifyStart(r, "u1", p, Snapshots)
    \/ \E answer \in AllAnswers : VerifyPopulate(r, answer)
    \/ VerifyMark(r)
    \/ VerifyOrderSave(r)
    \/ \E g \in Gateways, body \in WebhookBodies :
         \E header \in Headers(g, body) : WebhookStart(r, g, header, body, Snapshots)
    \/ WebhookCheck(r)
    \/ WebhookMark(r)
    \/ WebhookOrderFind(r)
    \/ WebhookOrderSave(r)
    \/ \E p \in {"pA", "pX"} : UpdateProductArrives(r, p, Snapshots)
    \/ UpdateProductSave(r)
    \/ \E p \in {"pA", "pX"} : DeleteProductStart(r, p, Snapshots)
    \/ DeleteProductSave(r)

SpecSnapshot == InitPay /\ [][NextSnapshot]_vars

\* ---- carts and orders of two users, one request at a time ----------------
Shopping == [seq |-> TRUE, max |-> MaxCartOps]

NextCart ==
  \E r \in Reqs :
    \/ \E u \in Users, p \in ProductIdArgs, q \in CartQuantities :
         AddToCartStart(r, u, p, q, Shopping)
    \/ AddToCartUser(r)
    \/ AddToCartSave(r)
    \/ AddToCartPopulate(r)
    \/ \E u \in Users : GetCartStart(r, u, Shopping)
    \/ GetCartPopulate(r)
    \/ GetCartSave(r)
    \/ \E u \in Users, items \in ItemLists : CreateOrderStart(r, u, items, Shopping)
    \/ CreateOrderValidate(r)
    \/ CreateOrderSave(r)
    \/ CreateOrderDecRead(r)
    \/ CreateOrderDecWrite(r)
    \/ CreateOrderCart(r)
    \/ CreateOrderFinish(r)

SpecCart == Init /\ [][NextCart]_vars

\* ---- every route of one shopper, the administrator and the gateways ------
Ledger == [seq |-> TRUE, max |-> MaxLedgerOps]

NextLedger ==
  \E r \in Reqs :
    \/ CreateOrderStart(r, "u1", <<Line("pA", 1)>>, Ledger)
    \/ CreateOrderSave(r)
    \/ CreateOrderDecRead(r)
    \/ CreateOrderDecWrite(r)
    \/ CreateOrderCart(r)
    \/ CreateOrderFinish(r)
    \/ \E o \in OrderArgs : CancelStart(r, "u1", o, Ledger)
    \/ CancelRestoreRead(r)
    \/ CancelRestoreWrite(r)
    \/ CancelSave(r)
    \/ \E o \in OrderArgs, s \in OrderStatuses : TransitionStart(r, o, s, Ledger)
    \/ TransitionSave(r)
    \/ \E o \in OrderArgs, m \in Gateways : InitiateStart(r, "u1", o, m, Ledger)
    \/ InitiateCheck(r)
    \/ InitiateCreate(r)
    \/ InitiateRef(r)
    \/ \E p \in PaymentArgs : VerifyStart(r, "u1", p, Ledger)
    \/ \E answer \in AllAnswers : VerifyPopulate(r, answer)
    \/ VerifyMark(r)
    \/ VerifyOrderSave(r)
    \/ \E g \in Gateways, body \in WebhookBodies :
         \E header \in Headers(g, body) : WebhookStart(r, g, header, body, Ledger)
    \/ WebhookCheck(r)
    \/ WebhookMark(r)
    \/ WebhookOrderFind(r)
    \/ WebhookOrderSave(r)
    \/ \E p \in Products, q \in CartQuantities :
         AddToCartStart(r, "u1", p, q, Ledger)
    \/ AddToCartUser(r)
    \/ AddToCartSave(r)
    \/ AddToCartPopulate(r)
    \/ GetCartStart(r, "u1", Ledger)
    \/ GetCartPopulate(r)
    \/ GetCartSave(r)
    \/ \E p \in Products : UpdateProductArrives(r, p, Ledger)
    \/ UpdateProductSave(r)
    \/ \E p \in Products : DeleteProductStart(r, p, Ledger)
    \/ DeleteProductSave(r)
    \/ \E p \in Products, q \in UpdateQuantities : UpdateCartStart(r, "u1", p, q, Ledger)
    \/ UpdateCartProduct(r)
    \/ UpdateCartSave(r)
    \/ \E p \in Products : RemoveFromCartStart(r, "u1", p, Ledger)
    \/ RemoveFromCartSave(r)
    \/ ClearCartStart(r, "u1", Ledger)
    \/ ClearCartSave(r)
    \/ \E guestCart \in GuestCarts : MergeCartStart(r, "u1", guestCart, Ledger)
    \/ MergeCartItem(r)
    \/ MergeCartSave(r)
    \/ \E p \in Products, quantityChange \in QuantityChanges :
         updateInventory(r, p, quantityChange, Ledger)

SpecLedger == InitPay /\ [][NextLedger]_vars

\* ---- verification against a gateway that may stay silent -----------------
\* every handler step that is enabled is eventually taken: database round
\* trips complete, and a gateway that answers does so in finite time
Verifying == [seq |-> TRUE, max |-> MaxLiveOps]

NextVerifyLive ==
  \E r \in Reqs :
    \/ CreateOrderStart(r, "u1", <<Line("pA", 1)>>, Verifying)
    \/ CreateOrderSave(r)
    \/ CreateOrderDecRead(r)
    \/ CreateOrderDecWrite(r)
    \/ CreateOrderCart(r)
    \/ CreateOrderFinish(r)
    \/ \E o \in OrderArgs, m \in Gateways : InitiateStart(r, "u1", o, m, Verifying)
    \/ InitiateCheck(r)
    \/ InitiateCreate(r)
    \/ InitiateRef(r)
    \/ \E u \in Users, p \in PaymentArgs : VerifyStart(r, u, p, Verifying)
    \/ \E answer \in AllAnswers : VerifyPopulate(r, answer)
    \/ VerifySilence(r)
    \/ VerifyMark(r)
    \/ VerifyOrderSave(r)

SpecVerifyLive == InitPay /\ [][NextVerifyLive]_vars /\ WF_vars(NextVerifyLive)

\* ---- orders of a product that is not inventory-tracked --------------------
UntrackedItemLists ==
  { <<Line("pB", 1)>>, <<Line("pB", 3)>>, <<Line("pA", 1), Line("pB", 2)>>,
    <<Line("pB", 2), Line("pA", 3)>> }

\* the untracked product carries a stored quantity of 0 or 1
InitUntracked ==
  /\ \E q \in {0, 1} :
       products =
         [p \in Products |->
            IF p = "pA"
            THEN [status |-> "active", price |-> PriceA, track |-> TRUE, quantity |-> MaxStock]
            ELSE [status |-> "active", price |-> PriceB, track |-> FALSE, quantity |-> q]]
  /\ orders = <<>>
  /\ payments = <<>>
  /\ carts = [u \in Users |-> <<>>]
  /\ req = [r \in Reqs |-> Idle]
  /\ started = 0
  /\ last = NoResponse
  /\ jsonMounted \in BOOLEAN

Untracked == [seq |-> TRUE, max |-> MaxUntrackedOps]

NextUntracked ==
  \E r \in Reqs :
    \/ \E items \in UntrackedItemLists : CreateOrderStart(r, "u1", items, Untracked)
    \/ CreateOrderValidate(r)
    \/ CreateOrderSave(r)
    \/ CreateOrderDecRead(r)
    \/ CreateOrderDecWrite(r)
    \/ CreateOrderCart(r)
    \/ CreateOrderFinish(r)
    \/ \E o \in OrderArgs : CancelStart(r, "u1", o, Untracked)
    \/ CancelRestoreRead(r)
    \/ CancelRestoreWrite(r)
    \/ CancelSave(r)

SpecUntracked == InitUntracked /\ [][NextUntracked]_vars

\* ---- cancel requests for one Order, handlers interleaving -----------------
Cancelling == [seq |-> FALSE, max |-> MaxCancelOps]

\* one Order is placed; its owner's cancel requests arrive once it is placed
NextCancelRace ==
  \E r \in Reqs :
    \/ /\ orders = <<>>
       /\ \E items \in {<<Line("pA", 1)>>, <<Line("pA", 2)>>, <<Line("pA", 1), Line("pB", 1)>>} :
            CreateOrderStart(r, "u1", items, Cancelling)
    \/ CreateOrderValidate(r)
    \/ CreateOrderSave(r)
    \/ CreateOrderDecRead(r)
    \/ CreateOrderDecWrite(r)
    \/ CreateOrderCart(r)
    \/ CreateOrderFinish(r)
    \/ /\ last.op # "none"
       /\ CancelStart(r, "u1", 1, Cancelling)
    \/ CancelRestoreRead(r)
    \/ CancelRestoreWrite(r)
    \/ CancelSave(r)

SpecCancelRace == InitPay /\ [][NextCancelRace]_vars

\* ---- reconciliation with the amount the gateway reports -------------------
\* charge-succeeded deliveries for the stored Payments, reporting the
\* Payment amount or just less, in the unit of the gateway
AmountBodies(g) ==
  UNION { { [event |-> "success", ref |-> payments[p].gatewayReference, amount |-> a] :
              a \in {Minor(g, payments[p].amount) - 1, Minor(g, payments[p].amount)} } :
          p \in DOMAIN payments }

Reconciling == [seq |-> TRUE, max |-> MaxAmountOps]

NextAmounts ==
  \E r \in Reqs :
    \/ CreateOrderStart(r, "u1", <<Line("pA", 1)>>, Reconciling) /\ orders = <<>>
    \/ CreateOrderSave(r)
    \/ CreateOrderDecRead(r)
    \/ CreateOrderDecWrite(r)
    \/ CreateOrderCart(r)
    \/ CreateOrderFinish(r)
    \/ \E m \in Gateways : InitiateStart(r, "u1", 1, m, Reconciling) /\ orders # <<>>
    \/ InitiateCheck(r)
    \/ InitiateCreate(r)
    \/ InitiateRef(r)
    \/ \E p \in DOMAIN payments : VerifyStart(r, "u1", p, Reconciling)
    \/ \E answer \in AllAnswers : VerifyPopulate(r, answer)
    \/ VerifyMark(r)
    \/ VerifyOrderSave(r)
    \/ \E g \in Gateways : \E body \in AmountBodies(g) :
         \E header \in Headers(g, body) : WebhookStart(r, g, header, body, Reconciling)
    \/ WebhookCheck(r)
    \/ WebhookMark(r)
    \/ WebhookOrderFind(r)
    \/ WebhookOrderSave(r)

SpecAmounts == InitPay /\ [][NextAmounts]_vars

\* ---- the cart routes of one user, one request at a time -------------------
CartEditing == [seq |-> TRUE, max |-> MaxCartSeqOps]

NextCartOps ==
  \E r \in Reqs :
    \/ \E p \in ProductIdArgs, q \in CartQuantities :
         AddToCartStart(r, "u1", p, q, CartEditing)
    \/ AddToCartUser(r)
    \/ AddToCartSave(r)
    \/ AddToCartPopulate(r)
    \/ GetCartStart(r, "u1", CartEditing)
    \/ GetCartPopulate(r)
    \/ GetCartSave(r)
    \/ \E p \in Products : DeleteProductStart(r, p, CartEditing)
    \/ DeleteProductSave(r)
    \/ \E p \in ProductIdArgs, q \in UpdateQuantities :
         UpdateCartStart(r, "u1", p, q, CartEditing)
    \/ UpdateCartProduct(r)
    \/ UpdateCartSave(r)
    \/ \E p \in ProductIdArgs : RemoveFromCartStart(r, "u1", p, CartEditing)
    \/ RemoveFromCartSave(r)
    \/ ClearCartStart(r, "u1", CartEditing)
    \/ ClearCartSave(r)
    \/ \E guestCart \in GuestCarts : MergeCartStart(r, "u1", guestCart, CartEditing)
    \/ MergeCartItem(r)
    \/ MergeCartSave(r)
    \/ \E p \in ProductIdArgs, q \in AddedQuantities :
         addToCart(r, "u1", p, q, CartEditing)
    \/ \E p \in ProductIdArgs : removeFromCart(r, "u1", p, CartEditing)
    \/ \E p \in ProductIdArgs, q \in SetQuantities :
         updateCartItemQuantity(r, "u1", p, q, CartEditing)
    \/ clearCart(r, "u1", CartEditing)

SpecCartOps == Init /\ [][NextCartOps]_vars

\* ---- two createOrder requests racing for the last unit -------------------
InitRace == Init /\ products["pA"].quantity = 1

NextRace ==
  \E r \in Reqs :
    \/ \E u \in Users :
         CreateOrderStart(r, u, <<Line("pA", 1)>>, [seq |-> FALSE, max |-> 2])
    \/ CreateOrderSave(r)
    \/ CreateOrderDecRead(r)
    \/ CreateOrderDecWrite(r)
    \/ CreateOrderCart(r)
    \/ CreateOrderFinish(r)

SpecRace == InitRace /\ [][NextRace]_vars

\* ======================= properties =======================================
NonFailed(o) ==
  {p \in DOMAIN payments : payments[p].order = o /\ payments[p].status # "failed"}

\* C1: two createOrder requests for quantity 1 of a product with stock 1 end,
\* under every interleaving, with exactly one order created and the other
\* request refused for insufficient stock.
C1_OneOrderOneRefusal ==
  [][(started' = 2 /\ AllIdle') =>
       /\ Len(orders') = 1
       /\ {last.kind, last'.kind} = {"created", "insufficient"}]_vars

\* C2: the quantity of every inventory-tracked product is >= 0 in every
\* reachable state of interleaved createOrder, cancelOrder, transitionStatus.
C2_StockNeverNegative ==
  \A p \in Products : products[p].track => products[p].quantity >= 0

\* a decrement below zero has been refused by the schema validator
C2_Witness ==
  /\ last.op = "createOrder" /\ last.code = 500
  /\ products["pA"].quantity = 0
  /\ Len(orders) = 2

\* C3: a createOrder that does not answer success has persisted no Order and
\* has left every product's quantity as it was before the request.
C3_AllOrNothing ==
  [][(started' # started \/ req' # req) /\ AllIdle'
       /\ last'.op = "createOrder" /\ last'.code # 201 =>
         /\ last'.key = None
         /\ Len(orders') = Len(orders)
         /\ \A r \in Reqs : req[r].op = "createOrder" =>
              \A p \in Products : products'[p].quantity = req[r].stock0[p]]_vars

\* C4: a successful createOrder has persisted a pending Order whose subtotal
\* is the sum of quantity * unit price of its lines and whose total is
\* subtotal + tax + shipping, and has lowered the stock of each tracked
\* product by exactly the quantity ordered for it.
C4_CreateOrderEffect ==
  [][\A r \in Reqs :
       (req[r].op = "createOrder" /\ req'[r] = Idle /\ last'.code = 201) =>
         LET o == orders'[req[r].order] IN
           /\ last'.key = req[r].order
           /\ o.status = "pending"
           /\ Len(o.items) = Len(req[r].items)
           /\ \A k \in DOMAIN o.items :
                /\ o.items[k].product = req[r].items[k].product
                /\ o.items[k].quantity = req[r].items[k].quantity
                /\ o.items[k].price = products[o.items[k].product].price
           /\ o.pricing.subtotal = LineSum(o.items)
           /\ o.pricing.total = o.pricing.subtotal + o.pricing.tax + o.pricing.shipping
           /\ \A p \in Products :
                products'[p].quantity =
                  req[r].stock0[p] - (IF products[p].track
                                      THEN Ordered(req[r].items, p) ELSE 0)]_vars

\* a two-line order above the free-shipping threshold has been created
C4_Witness ==
  /\ AllIdle
  /\ last.op = "createOrder" /\ last.code = 201
  /\ Len(orders[last.key].items) = 2
  /\ orders[last.key].pricing.shipping = 0
  /\ products["pA"].quantity = 0

\* C5: every Order has at most one Payment whose status is not failed.
C5_OneActivePayment ==
  \A o \in DOMAIN orders : Cardinality(NonFailed(o)) <= 1

\* a call that passed the Order checks and the duplicate check for an Order
\* with no Payment but the one the call itself has stored
FirstInitiate(q) ==
  /\ q.op = "initiatePayment" /\ q.pc \in {"ip_create", "ip_ref"}
  /\ \A k \in DOMAIN payments : payments[k].order = q.order => k = q.payment

\* C6: when the owner calls initiatePayment twice, one call after the other,
\* for the same pending Order, the first call creates a Payment and answers
\* success, the second call is rejected as a duplicate and creates no
\* Payment, and the Order has exactly one non-failed Payment.
C6_SecondInitiateRejected ==
  [][/\ \A r \in Reqs :
          (FirstInitiate(req[r]) /\ req'[r] = Idle) =>
             /\ last'.code = 200 /\ last'.kind = "created"
             /\ Cardinality({k \in DOMAIN payments' :
                               /\ payments'[k].order = req[r].order
                               /\ payments'[k].status # "failed"}) = 1
     /\ (last.op = "initiatePayment" /\ last.kind = "created") =>
          LET o == last.key
              Again(q) == q.op = "initiatePayment" /\ q.order = o
                            /\ q.user = orders[o].user
          IN /\ \A r \in Reqs : Again(req'[r]) => req'[r].pc = "ip_check"
             /\ \A r \in Reqs : (Again(req[r]) /\ req'[r] = Idle) =>
                  /\ last'.code = 400 /\ last'.kind = "duplicate"
                  /\ payments' = payments
                  /\ Cardinality(NonFailed(o)) = 1
             /\ (AllIdle /\ AllIdle' /\ started' # started
                   /\ last'.op = "initiatePayment" /\ last'.key = o) =>
                  last'.kind = "forbidden" /\ payments' = payments]_vars

\* what the claims call a validly signed delivery
ValidlySigned(g, header, body) ==
  /\ header # NoHeader
  /\ header = GatewaySignature(g, body)

\* C7: a validly signed charge-succeeded delivery of a gateway for one of its
\* Payments completes the Payment when it is pending (it passes on to
\* markCompleted) and, when the Payment is completed already, changes neither
\* the Payment nor the Order and is answered 200.
C7_RedeliveryIdempotent ==
  [][\A r \in Reqs :
       (/\ req[r].op = "webhook" /\ req[r].pc = "wh_check" /\ req'[r] # req[r]
        /\ ValidlySigned(req[r].gateway, req[r].header, req[r].body)
        /\ req[r].body.event = "success"
        /\ FindByReference(req[r].body.ref) # None
        /\ payments[FindByReference(req[r].body.ref)].gateway = req[r].gateway
        /\ payments[FindByReference(req[r].body.ref)].status \in {"pending", "completed"}) =>
          LET p == FindByReference(req[r].body.ref)
          IN IF payments[p].status = "pending"
             THEN req'[r].pc = "wh_mark" /\ req'[r].payment = p
             ELSE /\ req'[r] = Idle /\ last'.code = 200 /\ last'.key = p
                  /\ payments' = payments /\ orders' = orders]_vars

\* C8: of two concurrent deliveries of a validly signed charge-succeeded
\* webhook for one pending Payment, at most one gets past the still-pending
\* check to perform the transition and the Order write: no two deliveries
\* that have passed the check are in flight for the same Payment.
C8_OneDeliveryTransitions ==
  \A r1, r2 \in Reqs :
    (/\ r1 # r2
     /\ req[r1].op = "webhook" /\ req[r1].pc # "wh_check"
     /\ req[r2].op = "webhook" /\ req[r2].pc # "wh_check") =>
       req[r1].payment # req[r2].payment

\* a header that only a holder of the gateway's secret can present: the shared
\* hash, or a digest keyed with the secret
MadeWithSecret(g, header, body) ==
  \/ header = GatewaySignature(g, body)
  \/ g = "paystack" /\ \E text \in {RawBody(body), JsonStringify(Buffer(RawBody(body)))} :
                         header = PaystackHmac(text)

\* C9: a webhook whose signature header is missing or was not made with the
\* pre-shared secret is answered 401 at once, without a lookup, and changes
\* no Payment and no Order.
C9_BadSignatureRejected ==
  [][\A r \in Reqs :
       (/\ req[r].op = "webhook" /\ req'[r] # req[r]
        /\ ~MadeWithSecret(req[r].gateway, req[r].header, req[r].body)) =>
          /\ req'[r] = Idle
          /\ last'.op = "webhook" /\ last'.code = 401 /\ last'.key = None
          /\ payments' = payments /\ orders' = orders]_vars

\* a delivery naming a pending Payment's reference has been refused
C9_Witness ==
  /\ AllIdle
  /\ last.op = "webhook" /\ last.code = 401
  /\ \E p \in DOMAIN payments :
       payments[p].gatewayReference # NoReference /\ payments[p].status = "pending"

\* C10: a verifyPayment whose gateway call throws leaves the Payment as it was.
C10_UnavailableLeavesPayment ==
  [][\A r \in Reqs :
       (req[r].op = "verifyPayment" /\ req[r].pc = "vp_mark"
          /\ req[r].answer = "unavailable" /\ req'[r] # req[r]) =>
         payments'[req[r].payment] = payments[req[r].payment]]_vars

\* the edges of the Order state machine
OrderEdges ==
  { <<"pending", "processing">>, <<"processing", "shipped">>,
    <<"shipped", "delivered">>, <<"pending", "cancelled">>,
    <<"processing", "cancelled">> }

\* C11: every change of an Order's status follows an edge of the Order state
\* machine; no other transition is ever stored.
C11_OrderEdgesOnly ==
  [][\A o \in DOMAIN orders :
       orders'[o].status # orders[o].status =>
         <<orders[o].status, orders'[o].status>> \in OrderEdges]_vars

\* C12: once an Order is delivered or cancelled its status never changes.
C12_TerminalStatesStay ==
  [][\A o \in DOMAIN orders :
       orders[o].status \in {"delivered", "cancelled"} =>
         orders'[o].status = orders[o].status]_vars

\* the edges of the Payment state machine
PaymentEdges ==
  { <<"pending", "processing">>, <<"pending", "completed">>,
    <<"processing", "completed">>, <<"pending", "failed">>,
    <<"processing", "failed">>, <<"completed", "partially_refunded">>,
    <<"completed", "refunded">>, <<"partially_refunded", "refunded">> }

\* C13: every change of a Payment's status follows an edge of the Payment
\* state machine; in particular failed, completed and refunded Payments never
\* go back.
C13_PaymentEdgesOnly ==
  [][\A p \in DOMAIN payments :
       payments'[p].status # payments[p].status =>
         <<payments[p].status, payments'[p].status>> \in PaymentEdges]_vars

\* the Order has Payments and every one of them is failed
AllFailed(o) ==
  /\ \E p \in DOMAIN payments : payments[p].order = o
  /\ \A p \in DOMAIN payments : payments[p].order = o => payments[p].status = "failed"

\* C14: when every Payment of a pending Order is failed, initiatePayment by
\* the owner is not refused at the checks, stores a new Payment and answers
\* success, and the failed Payments stay stored unchanged.
C14_FailedDoesNotBlock ==
  [][/\ \A o \in DOMAIN orders :
          (/\ AllIdle /\ AllIdle' /\ started' # started
           /\ last'.op = "initiatePayment" /\ last'.key = o
           /\ orders[o].status = "pending" /\ AllFailed(o)) =>
             last'.kind = "forbidden" /\ payments' = payments
     /\ \A r \in Reqs :
          (/\ req[r].op = "initiatePayment" /\ req'[r] # req[r]
           /\ req[r].pc \in {"ip_check", "ip_create"}
           /\ orders[req[r].order].status = "pending"
           /\ AllFailed(req[r].order)) =>
             /\ SubSeq(payments', 1, Len(payments)) = payments
             /\ req[r].pc = "ip_check" => req'[r].pc = "ip_create"
             /\ req[r].pc = "ip_create" =>
                  /\ Len(payments') = Len(payments) + 1
                  /\ payments'[Len(payments')].order = req[r].order
                  /\ payments'[Len(payments')].status = "pending"
                  /\ req'[r] = Idle => last'.code = 200]_vars

\* C15: the refunds recorded on a Payment never sum to more than its amount,
\* and an addRefund that would push the sum above the amount is rejected,
\* records no refund and changes no status.
C15_RefundsWithinAmount ==
  [][/\ \A p \in DOMAIN payments' :
          TotalRefunded(payments'[p].refunds) <= payments'[p].amount
     /\ (started' # started /\ AllIdle' /\ last'.op = "addRefund"
           /\ TotalRefunded(payments[last'.key].refunds) + last'.amount
                > payments[last'.key].amount) =>
          last'.kind = "exceeds" /\ payments' = payments]_vars

\* a refund that fits alone has been rejected because of the refunds before it
C15_Witness ==
  /\ last.op = "addRefund" /\ last.kind = "exceeds"
  /\ last.amount <= payments[last.key].amount
  /\ Len(payments[last.key].refunds) = 2
  /\ TotalRefunded(payments[last.key].refunds) = payments[last.key].amount

\* C16: cancelOrder on an Order that is shipped, delivered or cancelled is
\* refused at once and leaves every Order and every product's stock unchanged.
C16_CancelRefusedWhenShipped ==
  [][\A o \in DOMAIN orders :
       orders[o].status \in {"shipped", "delivered", "cancelled"} =>
         /\ \A r \in Reqs :
              ~(req[r] = Idle /\ req'[r].op = "cancelOrder" /\ req'[r].order = o)
         /\ (started' # started /\ AllIdle' /\ last'.op = "cancelOrder"
               /\ last'.key = o) =>
              /\ last'.code \in {400, 403}
              /\ orders' = orders /\ products' = products]_vars

\* the owner's cancelOrder of a shipped Order has been refused
C16_Witness ==
  /\ AllIdle
  /\ last.op = "cancelOrder" /\ last.kind = "invalid_state" /\ last.code = 400
  /\ orders[last.key].status = "shipped"
  /\ orders[last.key].cancelledAt = 0

\* C17: a successful cancelOrder of a pending or processing Order has added
\* back to each tracked product the quantity of each of the Order's lines and
\* has stored status cancelled with a reason and a cancelled-at timestamp;
\* when it directly follows the createOrder that made the Order, every
\* product's stock is back at its value before that createOrder.
C17_CancelRestoresStock ==
  [][\A r \in Reqs :
       (req[r].op = "cancelOrder" /\ req'[r] = Idle /\ last'.code = 200) =>
         LET o == req[r].order IN
           /\ orders[o].status \in {"pending", "processing"}
           /\ orders'[o].status = "cancelled"
           /\ orders'[o].cancellationReason # ""
           /\ orders'[o].cancelledAt = req[r].n
           /\ \A p \in Products :
                products'[p].quantity =
                  req[r].stock0[p] + (IF products[p].track
                                      THEN Ordered(orders[o].items, p) ELSE 0)
           /\ (last.op = "createOrder" /\ last.code = 201 /\ last.key = o) =>
                \A p \in Products : products'[p].quantity = last.stock0[p]]_vars

\* an Order for two units has been created and then cancelled
C17_Witness ==
  /\ AllIdle /\ started = 2
  /\ last.op = "cancelOrder" /\ last.code = 200 /\ last.key = 1
  /\ orders[1].status = "cancelled"
  /\ orders[1].items[1].quantity = 2
  /\ products["pA"].quantity = 2

\* C18: when the verification result is verified with a confirmed amount >=
\* the Payment amount, verifyPayment marks the Payment completed with the
\* gateway's transaction id and sets its Order to processing, and both are
\* stored when it answers success.
C18_VerifiedCompletes ==
  [][\A r \in Reqs :
       (/\ req[r].op = "verifyPayment" /\ req'[r] # req[r]
        /\ req[r].pc \in {"vp_mark", "vp_order"}
        /\ req[r].result.verified
        /\ req[r].result.amount >= req[r].doc.amount) =>
          LET p == req[r].payment IN
            /\ payments'[p].status = "completed"
            /\ payments'[p].gatewayTransactionId = req[r].result.transactionId
            /\ payments'[p].gatewayTransactionId # ""
            /\ req[r].pc = "vp_mark" => req'[r].pc = "vp_order"
            /\ req[r].pc = "vp_order" =>
                 /\ req'[r] = Idle
                 /\ last'.op = "verifyPayment" /\ last'.code = 200 /\ last'.key = p
                 /\ orders'[payments'[p].order].status = "processing"]_vars

\* a paystack Payment has been verified for its full amount
C18_Witness ==
  /\ AllIdle
  /\ last.op = "verifyPayment" /\ last.code = 200
  /\ payments[last.key].gateway = "paystack"
  /\ payments[last.key].status = "completed"
  /\ payments[last.key].gatewayTransactionId = "T1"
  /\ orders[payments[last.key].order].status = "processing"

\* C19: initiatePayment goes on to create a Payment only for an Order that
\* exists, belongs to the requester and is pending; otherwise it is rejected
\* at once and no Payment is created or changed.
C19_InitiateOnlyWhenEligible ==
  [][/\ \A r \in Reqs :
          (req[r] = Idle /\ req'[r].op = "initiatePayment") =>
            /\ req'[r].order \in DOMAIN orders
            /\ orders[req'[r].order].user = req'[r].user
            /\ orders[req'[r].order].status = "pending"
     /\ (started' # started /\ AllIdle' /\ last'.op = "initiatePayment") =>
          /\ last'.code \in {400, 403, 404}
          /\ payments' = payments
     /\ Len(payments') > Len(payments) =>
          \E r \in Reqs :
            /\ req[r].op = "initiatePayment" /\ req[r].pc = "ip_create"
            /\ payments'[Len(payments')].order = req[r].order
            /\ payments'[Len(payments')].user = req[r].user
            /\ orders[req[r].order].user = req[r].user
            /\ orders[req[r].order].status = "pending"]_vars

\* initiatePayment for a cancelled Order has been rejected; no Payment exists
C19_Witness ==
  /\ AllIdle
  /\ last.op = "initiatePayment" /\ last.kind = "invalid_state" /\ last.code = 400
  /\ orders[last.key].status = "cancelled"
  /\ payments = <<>>

\* C20: the pricing of every Order is a function of its lines: subtotal is
\* their sum, tax is 7.5% of subtotal, shipping is 2500 up to and including
\* subtotal 50000 and 0 above, total = subtotal + tax + shipping; one line of
\* price 10000 and quantity 2 gives 20000, 1500, 2500, 24000.
C20_PricingFunction ==
  \A o \in DOMAIN orders :
    LET pr == orders[o].pricing
        items == orders[o].items
    IN /\ pr.subtotal = LineSum(items)
       /\ pr.tax * 1000 = pr.subtotal * 75
       /\ pr.shipping = (IF pr.subtotal > 50000 THEN 0 ELSE 2500)
       /\ pr.subtotal = 50000 => pr.shipping = 2500
       /\ pr.total = pr.subtotal + pr.tax + pr.shipping
       /\ (Len(items) = 1 /\ items[1].price = 10000 /\ items[1].quantity = 2) =>
            pr = [subtotal |-> 20000, tax |-> 1500, shipping |-> 2500,
                  total |-> 24000]

\* the example order and an order of subtotal exactly 50000 have been priced
C20_Witness ==
  /\ Len(orders) = 2
  /\ orders[1].pricing.total = 24000
  /\ orders[2].pricing.subtotal = 50000
  /\ orders[2].pricing.shipping = 2500
  /\ orders[2].pricing.total = 56250

\* C21: whether sendOrderNotification resolves or throws, createOrder answers
\* 201 for the Order it persisted, and the Orders, the stock and the carts
\* (the requester's already cleared) are the same in both cases.
C21_NotificationFailureIgnored ==
  [][\A r \in Reqs :
       (req[r].op = "createOrder" /\ req[r].pc = "co_notify" /\ req'[r] # req[r]) =>
         /\ req'[r] = Idle
         /\ last'.code = 201 /\ last'.kind = "created"
         /\ last'.key = req[r].order
         /\ orders' = orders /\ products' = products /\ carts' = carts
         /\ orders[req[r].order].status = "pending"
         /\ carts[req[r].user] = <<>>
         /\ \A p \in Products :
              products[p].track =>
                products[p].quantity
                  = req[r].stock0[p] - Ordered(req[r].items, p)]_vars

\* the notification threw and the Order for two units was still answered 201
C21_Witness ==
  /\ AllIdle
  /\ last.op = "createOrder" /\ last.mail = "throws" /\ last.code = 201
  /\ orders[last.key].status = "pending"
  /\ products["pA"].quantity = last.stock0["pA"] - 2

\* C22: a webhook delivery is answered 200 whenever its signature is valid,
\* whatever its event and whatever Payment it names, and is answered with a
\* rejection status only when the signature check fails.
C22_SignedAlwaysAcknowledged ==
  [][\A r \in Reqs :
       (req[r].op = "webhook" /\ req'[r] = Idle) =>
         /\ last'.op = "webhook"
         /\ ValidlySigned(req[r].gateway, req[r].header, req[r].body) =>
              last'.code = 200
         /\ last'.code # 200 =>
              ~ValidlySigned(req[r].gateway, req[r].header, req[r].body)]_vars

\* the Payment a verifyPayment call or a webhook delivery is about (0 if none)
Target(q) ==
  IF q.op = "verifyPayment" THEN q.payment ELSE FindByReference(q.body.ref)

\* C23: when a verifyPayment call or a webhook delivery finds its Payment
\* already completed and the Order processing or further, none of its steps
\* changes the Payment's status or the Order's status, whatever the gateway
\* answers.
C23_ReconciliationSafe ==
  [][\A r \in Reqs :
       (/\ req[r].op \in {"verifyPayment", "webhook"} /\ req'[r] # req[r]
        /\ Target(req[r]) \in DOMAIN payments
        /\ payments[Target(req[r])].status = "completed"
        /\ req[r].op = "verifyPayment" => req[r].doc.status = "completed"
        /\ req[r].op = "webhook" => req[r].pc = "wh_check"
        /\ orders[payments[Target(req[r])].order].status
             \in {"processing", "shipped", "delivered"}) =>
          LET p == Target(req[r])
              o == payments[p].order
          IN /\ payments'[p].status = "completed"
             /\ orders'[o].status = orders[o].status]_vars

\* C24: when initiatePayment answers success, the Payment it created carries
\* a gateway reference, and no other Payment carries the same one.
C24_ReferenceStored ==
  [][\A r \in Reqs :
       (req[r].op = "initiatePayment" /\ req'[r] = Idle /\ last'.code = 200) =>
         LET p == IF req[r].pc = "ip_create" THEN Len(payments') ELSE req[r].payment
         IN /\ payments'[p].order = req[r].order
            /\ payments'[p].gatewayReference # NoReference
            /\ \A k \in DOMAIN payments' :
                 k # p => payments'[k].gatewayReference # payments'[p].gatewayReference]_vars

\* C25: an initiatePayment that passed the Order and duplicate checks stores
\* a Payment for the Order's total and answers success, leaving the Payment
\* processing for bank_transfer and pending for every other method.
C25_InitiateOutcome ==
  [][\A r \in Reqs :
       (/\ req[r].op = "initiatePayment" /\ req'[r] # req[r]
        /\ req[r].pc \in {"ip_create", "ip_ref"}) =>
          LET p == IF req[r].pc = "ip_create" THEN Len(payments) + 1
                   ELSE req[r].payment
          IN /\ p \in DOMAIN payments'
             /\ payments'[p].order = req[r].order
             /\ payments'[p].amount = orders[req[r].order].pricing.total
             /\ req'[r] = Idle =>
                  /\ last'.code = 200
                  /\ payments'[p].status =
                       (IF req[r].method = "bank_transfer"
                        THEN "processing" ELSE "pending")]_vars

\* C26: an accepted addRefund leaves the Payment refunded exactly when its
\* recorded refunds, the new one included, sum to the Payment amount, and
\* partially_refunded when they sum to less.
C26_RefundStatus ==
  [][(started' # started /\ AllIdle' /\ last'.op = "addRefund"
        /\ last'.kind = "refunded") =>
       LET p == last'.key
           sum == TotalRefunded(payments'[p].refunds)
       IN /\ sum = TotalRefunded(payments[p].refunds) + last'.amount
          /\ payments'[p].status = "refunded" <=> sum = payments'[p].amount
          /\ sum < payments'[p].amount =>
               payments'[p].status = "partially_refunded"]_vars

\* C27: addRefund on a Payment that is neither completed nor
\* partially_refunded is rejected, records no refund and changes no status.
C27_RefundOnlyWhenRefundable ==
  [][(started' # started /\ AllIdle' /\ last'.op = "addRefund"
        /\ payments[last'.key].status \notin {"completed", "partially_refunded"}) =>
       /\ last'.kind # "refunded"
       /\ payments' = payments]_vars

\* C28: an Order's line items and pricing breakdown never change once the
\* Order is stored, whatever cancel, status, payment, webhook or product
\* price requests follow, and every stored Order has
\* total = subtotal + tax + shipping and subtotal = sum of quantity * price.
C28_OrderSnapshotFrozen ==
  [][ /\ \A o \in DOMAIN orders :
           /\ o \in DOMAIN orders'
           /\ orders'[o].items = orders[o].items
           /\ orders'[o].pricing = orders[o].pricing
      /\ \A o \in DOMAIN orders' :
           LET pr == orders'[o].pricing
           IN /\ pr.total = pr.subtotal + pr.tax + pr.shipping
              /\ pr.subtotal = LineSum(orders'[o].items)
              /\ \A i \in DOMAIN orders'[o].items :
                   orders'[o].items[i].itemTotal =
                     orders'[o].items[i].quantity * orders'[o].items[i].price
    ]_vars

\* an Order whose product was repriced after creation and which was then paid
C28_Witness ==
  \E o \in DOMAIN orders :
    /\ orders[o].items[1].price # products[orders[o].items[1].product].price
    /\ orders[o].status = "processing"
    /\ orders[o].pricing.subtotal = LineSum(orders[o].items)
    /\ AllIdle

\* C29: a transitionStatus that succeeds with status shipped (delivered)
\* stamps shipped-at (delivered-at) with the time of the request when the
\* Order had none, and leaves a timestamp that is already set as it is;
\* the timestamp of the other status is not touched.
C29_TimestampsSetOnce ==
  [][ \A r \in Reqs :
        (req[r].op = "transitionStatus" /\ req[r].pc = "ts_save"
           /\ req'[r].pc = "idle") =>
          LET o == req[r].order
              s == req[r].status
              old == orders[o]
              new == orders'[o]
          IN /\ last'.code = 200
             /\ new.status = s
             /\ new.shippedAt =
                  IF s = "shipped" /\ old.shippedAt = 0 THEN req[r].n
                  ELSE old.shippedAt
             /\ new.deliveredAt =
                  IF s = "delivered" /\ old.deliveredAt = 0 THEN req[r].n
                  ELSE old.deliveredAt
             /\ s = "shipped" => new.shippedAt # 0
             /\ s = "delivered" => new.deliveredAt # 0
    ]_vars

\* shipped again by the latest request, still stamped by the earlier one
C29_Witness ==
  /\ AllIdle
  /\ last.op = "transitionStatus" /\ last.code = 200
  /\ last.key \in DOMAIN orders
  /\ orders[last.key].status = "shipped"
  /\ orders[last.key].shippedAt # 0
  /\ orders[last.key].shippedAt < started

\* C30: when createOrder has answered, a 201 has emptied the requester's
\* cart, a 400 (failed validation) has left the requester's cart as the
\* request found it, and in every case the carts of the other users are as
\* the request found them.
C30_CartAfterCreateOrder ==
  (AllIdle /\ last.op = "createOrder") =>
    /\ last.code = 201 => carts[last.user] = <<>>
    /\ last.code = 400 => carts[last.user] = last.carts0[last.user]
    /\ \A v \in Users \ {last.user} : carts[v] = last.carts0[v]

\* an order placed by a user with a filled cart while another user's cart
\* is filled too
C30_Witness ==
  /\ AllIdle
  /\ last.op = "createOrder" /\ last.code = 201
  /\ last.carts0[last.user] # <<>>
  /\ carts[last.user] = <<>>
  /\ \E v \in Users \ {last.user} : carts[v] # <<>>

\* a refused order of a user with a filled cart
C30_WitnessRefused ==
  /\ AllIdle
  /\ last.op = "createOrder" /\ last.code = 400
  /\ last.carts0[last.user] # <<>>
  /\ carts[last.user] = last.carts0[last.user]

\* the operations C31 names as leaving the stock alone
StockNeutralOps ==
  {"addToCart", "updateCart", "removeFromCart", "clearCart", "mergeCart",
   "initiatePayment", "verifyPayment", "webhook", "transitionStatus"}

\* C31: a product's stock quantity is lowered only by a step of createOrder
\* and raised only by a step of cancelOrder; no step of a cart operation,
\* of initiatePayment, verifyPayment, a webhook delivery or transitionStatus
\* changes any product's stock quantity.
C31_StockOwnership ==
  [][ \A p \in Products :
        /\ products'[p].quantity < products[p].quantity =>
             \E r \in Reqs : req[r].op = "createOrder" /\ req'[r] # req[r]
        /\ products'[p].quantity > products[p].quantity =>
             \E r \in Reqs : req[r].op = "cancelOrder" /\ req'[r] # req[r]
        /\ (\E r \in Reqs : /\ req'[r] # req[r]
                            /\ \/ req[r].op \in StockNeutralOps
                               \/ req'[r].op \in StockNeutralOps) =>
             products'[p].quantity = products[p].quantity
        /\ (AllIdle /\ AllIdle' /\ last'.op \in StockNeutralOps) =>
             products'[p].quantity = products[p].quantity
    ]_vars

\* the routes besides createOrder, cancelOrder and the product update
StockNeutralRoutes == StockNeutralOps \cup {"getCart", "deleteProduct"}

\* a call of product.updateInventory, which is one step
InventoryCall ==
  AllIdle /\ AllIdle' /\ last'.op = "Product.updateInventory"

\* C31 (amended): a product's stock quantity is lowered only by a step of
\* createOrder, of the administrator's product update or by a call of the
\* Product model's updateInventory, and raised only by a step of
\* cancelOrder, of that update or by such a call; no step of a cart route,
\* of initiatePayment, verifyPayment, a webhook delivery, transitionStatus
\* or the product delete changes any product's stock quantity.
C31_StockOwnershipBesidesAdmin ==
  [][ \A p \in Products :
        /\ products'[p].quantity < products[p].quantity =>
             \/ \E r \in Reqs : /\ req[r].op \in {"createOrder", "updateProduct"}
                                 /\ req'[r] # req[r]
             \/ InventoryCall
        /\ products'[p].quantity > products[p].quantity =>
             \/ \E r \in Reqs : /\ req[r].op \in {"cancelOrder", "updateProduct"}
                                 /\ req'[r] # req[r]
             \/ InventoryCall
        /\ (\E r \in Reqs : /\ req'[r] # req[r]
                            /\ \/ req[r].op \in StockNeutralRoutes
                               \/ req'[r].op \in StockNeutralRoutes) =>
             products'[p].quantity = products[p].quantity
        /\ (AllIdle /\ AllIdle' /\ last'.op \in StockNeutralRoutes) =>
             products'[p].quantity = products[p].quantity
    ]_vars

\* stock lowered by an order that was then shipped, while the cart is filled
C31_Witness ==
  /\ AllIdle
  /\ products["pA"].quantity < MaxStock
  /\ carts["u1"] # <<>>
  /\ \E o \in DOMAIN orders : orders[o].status = "shipped"

\* C32: every verifyPayment request is eventually answered, also when the
\* gateway never answers the verification call.
C32_VerifyEventuallyAnswers ==
  \A r \in Reqs : (req[r].op = "verifyPayment") ~> (req[r].op = "idle")

\* C33: no step of createOrder or cancelOrder changes the stored quantity
\* of a product that is not inventory-tracked, and a createOrder refused
\* for insufficient stock was refused on a line of a tracked product.
C33_UntrackedUntouched ==
  [][ /\ \A p \in Products :
           ~products[p].track => products'[p].quantity = products[p].quantity
      /\ (/\ AllIdle' /\ (started' # started \/ ~AllIdle)
          /\ last'.op = "createOrder" /\ last'.kind = "insufficient") =>
           /\ last'.line.product \in Products
           /\ products[last'.line.product].track
    ]_vars

\* an order for more units of the untracked product than its stored
\* quantity was accepted and cancelled; the stored quantity is as it was
C33_Witness ==
  /\ AllIdle
  /\ last.op = "cancelOrder" /\ last.code = 200
  /\ \E i \in DOMAIN orders[last.key].items :
       /\ orders[last.key].items[i].product = "pB"
       /\ orders[last.key].items[i].quantity > products["pB"].quantity
  /\ products["pB"].quantity = 1

\* units of product p held by the Orders of `os` that are not cancelled
RECURSIVE Reserved(_, _)
Reserved(os, p) ==
  IF os = <<>> THEN 0
  ELSE (IF Head(os).status # "cancelled" THEN Ordered(Head(os).items, p) ELSE 0)
       + Reserved(Tail(os), p)

\* C34: whenever no request is in flight, the quantity of every tracked
\* product plus the units of it held by the Orders that are not cancelled
\* equals the quantity the product started with.
C34_StockConserved ==
  AllIdle =>
    \A p \in Products :
      products[p].track =>
        products[p].quantity + Reserved(orders, p) = MaxStock

\* C35: once the cancel requests for the one Order placed have all been
\* answered and the Order is cancelled, the tracked product's quantity is
\* what it was before the Order was placed: the Order's units were added
\* back once, however the handlers interleaved.
C35_RestoredOnce ==
  (AllIdle /\ orders # <<>> /\ orders[1].status = "cancelled") =>
    products["pA"].quantity = MaxStock

\* C36: a createOrder whose lines are all of active products and ask, in
\* total, more units of a tracked product than the stock the request found
\* is answered 400 insufficient stock and leaves every quantity as found.
C36_CombinedQuantityChecked ==
  [][ \A r \in Reqs :
        (/\ req[r].op = "createOrder" /\ req'[r].pc = "idle"
         /\ \A i \in DOMAIN req[r].items :
              /\ req[r].items[i].product \in Products
              /\ products[req[r].items[i].product].status = "active"
         /\ \E p \in Products :
              /\ products[p].track
              /\ Ordered(req[r].items, p) > req[r].stock0[p]) =>
          /\ last'.code = 400 /\ last'.kind = "insufficient"
          /\ \A p \in Products : products'[p].quantity = req[r].stock0[p]
    ]_vars

\* C37: no step marks a Payment completed while its Order is cancelled.
C37_NoCompletionForCancelled ==
  [][ \A p \in DOMAIN payments :
        (payments[p].status # "completed" /\ payments'[p].status = "completed") =>
          orders[payments[p].order].status # "cancelled"
    ]_vars

\* C38: whichever path marks a Payment completed, the amount the gateway
\* confirmed (in the verification answer, or in the webhook payload) is at
\* least the Payment amount.
C38_SameAmountRule ==
  [][ \A r \in Reqs :
        (/\ req[r].op \in {"verifyPayment", "webhook"}
         /\ req[r].payment \in DOMAIN payments
         /\ payments[req[r].payment].status # "completed"
         /\ payments'[req[r].payment].status = "completed") =>
          IF req[r].op = "verifyPayment"
          THEN req[r].result.amount >= payments[req[r].payment].amount
          ELSE ConfirmedAmount(req[r].gateway, req[r].body.amount)
                 >= payments[req[r].payment].amount
    ]_vars

\* C39: completed-at is written only by a step that leaves the Payment
\* completed, failed-at only by a step that leaves it failed, a new Payment
\* has neither, and no Payment ever carries both.
C39_OutcomeTimestamps ==
  [][ \A p \in DOMAIN payments' :
        LET new == payments'[p]
        IN /\ ~(new.completedAt # 0 /\ new.failedAt # 0)
           /\ IF p \in DOMAIN payments
              THEN /\ new.completedAt # payments[p].completedAt =>
                        new.status = "completed"
                   /\ new.failedAt # payments[p].failedAt =>
                        new.status = "failed"
              ELSE new.completedAt = 0 /\ new.failedAt = 0
    ]_vars

\* C40: in every cart each product appears in at most one item and every
\* item's quantity is at least 1.
C40_CartWellFormed ==
  \A u \in Users :
    /\ \A i \in DOMAIN carts[u] : carts[u][i].quantity >= 1
    /\ \A i, j \in DOMAIN carts[u] :
         carts[u][i].product = carts[u][j].product => i = j
====
